---- MODULE Spec2Model ----
\* Bill-of-Quantities parser (core/utils/boq_parser.py): header detection, column
\* mapping, position assembly and the numeric integrity check, as a state machine
\* that follows BoQParser.parse_workbook sheet by sheet and row by row.
\*
\* Text is a sequence of one-character strings, so that str(), strip(), lower(),
\* substring search and the numeric pattern are computed, not assumed.
\* Column and row indices are the 0-based indices of the Python code.
EXTENDS Integers, Sequences, FiniteSets, TLC

VARIABLES workbook, sheet_no, pc, raw_df, discipline, header_idx, mapping, colmap,
          rel_idx, current, description_parts, positions, warnings, results,
          excel, previous, payload, arg, ret

\* the workbook and the locals of parse_workbook and parse_positions
call_vars == <<workbook, sheet_no, pc, raw_df, discipline, header_idx, mapping, colmap,
               rel_idx, current, description_parts, positions, warnings, results>>

\* what outlives a call of parse_workbook: the workbook file handle, the outcomes of
\* the calls made before, and the conversions of the results to plain records that
\* the caller has made (none or one)
caller_vars == <<excel, previous, payload>>

\* the argument and the value of a function called on its own
fn_vars == <<arg, ret>>

vars == <<call_vars, caller_vars, fn_vars>>

-----------------------------------------------------------------------------
\* Python values

\* None, and the "no value" of every Optional[...] field.
None == [none |-> TRUE]

\* Cell values as pandas hands them over (header=None, no dtype coercion):
\* the float NaN of an empty cell, an int, a float, a string, or a bool.
NaN == [t |-> "nan"]
IntCell(n) == [t |-> "int", v |-> n]
\* A float whose repr is the decimal numeral m / 10^e with e >= 1 digits after the point.
FloatCell(m, e) == [t |-> "float", m |-> m, e |-> e]
StrCell(s) == [t |-> "str", s |-> s]
\* A bool, the value of a TRUE/FALSE cell in a column of mixed content.
BoolCell(b) == [t |-> "bool", v |-> b]

Min(S) == CHOOSE x \in S : \A y \in S : x <= y
Max(S) == CHOOSE x \in S : \A y \in S : x >= y

RECURSIVE Pow10(_)
Pow10(n) == IF n = 0 THEN 1 ELSE 10 * Pow10(n - 1)

-----------------------------------------------------------------------------
\* Characters and str methods

Digits == <<"0", "1", "2", "3", "4", "5", "6", "7", "8", "9">>
IsDigit(c) == \E i \in 1..10 : Digits[i] = c
DigitVal(c) == (CHOOSE i \in 1..10 : Digits[i] = c) - 1

UpperChars == <<"A", "B", "C", "D", "E", "F", "G", "H", "I", "J", "K", "L", "M",
                "N", "O", "P", "Q", "R", "S", "T", "U", "V", "W", "X", "Y", "Z",
                "U+010C">>
LowerChars == <<"a", "b", "c", "d", "e", "f", "g", "h", "i", "j", "k", "l", "m",
                "n", "o", "p", "q", "r", "s", "t", "u", "v", "w", "x", "y", "z",
                "U+010D">>

\* str.lower(), one character
LowerChar(c) ==
    IF \E i \in 1..Len(UpperChars) : UpperChars[i] = c
    THEN LowerChars[CHOOSE i \in 1..Len(UpperChars) : UpperChars[i] = c]
    ELSE c

\* str.lower()
Lower(s) == [i \in 1..Len(s) |-> LowerChar(s[i])]

\* The characters str.strip() removes (U+00A0 is the no-break space).
IsSpace(c) == c \in {" ", "U+00A0"}

\* str.strip()
Strip(s) ==
    LET keep == {i \in 1..Len(s) : ~IsSpace(s[i])}
    IN  IF keep = {} THEN <<>> ELSE SubSeq(s, Min(keep), Max(keep))

\* str.replace(old, new) for a single character old
ReplaceChar(s, old, new) == [i \in 1..Len(s) |-> IF s[i] = old THEN new ELSE s[i]]

\* marker in text
Contains(text, marker) ==
    \E i \in 0..(Len(text) - Len(marker)) : SubSeq(text, i + 1, i + Len(marker)) = marker

\* str(n) for a natural number n
RECURSIVE NatStr(_)
NatStr(n) == IF n < 10 THEN <<Digits[n + 1]>> ELSE Append(NatStr(n \div 10), Digits[(n % 10) + 1])

\* str(n) for an int
IntStr(n) == IF n < 0 THEN <<"-">> \o NatStr(-n) ELSE NatStr(n)

\* the last k digits of n, zero padded
RECURSIVE FracStr(_, _)
FracStr(n, k) == IF k = 0 THEN <<>> ELSE Append(FracStr(n \div 10, k - 1), Digits[(n % 10) + 1])

\* str(value) of a cell value
Str(value) ==
    CASE value.t = "nan" -> <<"n", "a", "n">>
      [] value.t = "int" -> IntStr(value.v)
      [] value.t = "float" ->
            LET a == IF value.m < 0 THEN -value.m ELSE value.m
            IN  (IF value.m < 0 THEN <<"-">> ELSE <<>>)
                \o NatStr(a \div Pow10(value.e)) \o <<".">> \o FracStr(a % Pow10(value.e), value.e)
      [] value.t = "str" -> value.s
      [] value.t = "bool" -> IF value.v THEN <<"T", "r", "u", "e">>
                             ELSE <<"F", "a", "l", "s", "e">>

-----------------------------------------------------------------------------
\* Vocabulary

\* COLUMN_VARIANTS: each spelling is a sequence of characters; a character outside
\* ASCII is written as its code point ("U+010D" is c-caron).
Variants_position_id ==
    { <<"r", "e", "d", "n", "i", " ", "b", "r", "o", "j">>,
      <<"r", ".", "b", "r">>,
      <<"r", ".", " ", "b", "r", ".">>,
      <<"r", "b">>,
      <<"r", "-", "b">>,
      <<"r", "e", "d", ".", " ", "b", "r", ".">>,
      <<"p", "o", "z", "i", "c", "i", "j", "a">>,
      <<"p", "o", "z", ".">>,
      <<"p", "o", "z">>,
      <<"i", "t", "e", "m", " ", "n", "o">>,
      <<"i", "t", "e", "m">>,
      <<"n", "o">>,
      <<"U+2116">>,
      <<"U+0431", "U+0440", ".">>,
      <<"U+0440", "U+0435", "U+0434", "U+043D", "U+0438", " ", "U+0431", "U+0440", "U+043E", "U+0458">>,
      <<"U+0440", "U+0435", "U+0434", ".", " ", "U+0431", "U+0440", ".">>,
      <<"U+043F", "U+043E", "U+0437", ".">>,
      <<"U+043F", "U+043E", "U+0437", "U+0438", "U+0446", "U+0438", "U+0458", "U+0430">> }

Variants_description ==
    { <<"o", "p", "i", "s">>,
      <<"o", "p", "i", "s", " ", "r", "a", "d", "o", "v", "a">>,
      <<"n", "a", "z", "i", "v">>,
      <<"n", "a", "z", "i", "v", " ", "r", "a", "d", "o", "v", "a">>,
      <<"r", "a", "d", "o", "v", "i">>,
      <<"d", "e", "s", "c", "r", "i", "p", "t", "i", "o", "n">>,
      <<"d", "e", "s", "c">>,
      <<"i", "t", "e", "m", " ", "d", "e", "s", "c", "r", "i", "p", "t", "i", "o", "n">>,
      <<"U+043E", "U+043F", "U+0438", "U+0441">>,
      <<"U+043E", "U+043F", "U+0438", "U+0441", " ", "U+0440", "U+0430", "U+0434", "U+043E", "U+0432", "U+0430">>,
      <<"U+043D", "U+0430", "U+0437", "U+0438", "U+0432">> }

Variants_unit ==
    { <<"j", "m">>,
      <<"j", "e", "d", "i", "n", "i", "c", "a">>,
      <<"j", "e", "d", "i", "n", "i", "c", "a", " ", "m", "e", "r", "e">>,
      <<"j", "e", "d", ".", " ", "m", "e", "r", "a">>,
      <<"j", "e", "d", ".", " ", "m", ".">>,
      <<"j", ".", "m", ".">>,
      <<"u", "n", "i", "t">>,
      <<"u", "o", "m">>,
      <<"U+0458", "U+0435", "U+0434", "U+0438", "U+043D", "U+0438", "U+0446", "U+0430">>,
      <<"U+0458", "U+0435", "U+0434", ".", " ", "U+043C", "U+0435", "U+0440", "U+0430">>,
      <<"U+0458", "U+043C">> }

Variants_quantity ==
    { <<"k", "o", "l", "i", "U+010D", "i", "n", "a">>,
      <<"k", "o", "l", ".">>,
      <<"k", "o", "l", "i", "U+010D", ".">>,
      <<"k", "o", "l", "i", "U+010D", "i", "n", "a", " ", "[", "j", "m", "]">>,
      <<"q", "t", "y">>,
      <<"q", "u", "a", "n", "t", "i", "t", "y">>,
      <<"U+043A", "U+043E", "U+043B", "U+0438", "U+0447", "U+0438", "U+043D", "U+0430">>,
      <<"U+043A", "U+043E", "U+043B", ".">> }

Variants_unit_price ==
    { <<"j", "e", "d", "i", "n", "i", "U+010D", "n", "a", " ", "c", "e", "n", "a">>,
      <<"j", "e", "d", ".", " ", "c", "e", "n", "a">>,
      <<"j", "e", "d", ".", "U+010D", "e", "n", "a">>,
      <<"j", "e", "d", "i", "n", "i", "c", "n", "a", " ", "c", "e", "n", "a">>,
      <<"j", "c">>,
      <<"c", "e", "n", "a", "/", "j", "m">>,
      <<"u", "n", "i", "t", " ", "p", "r", "i", "c", "e">>,
      <<"r", "a", "t", "e">>,
      <<"U+0458", "U+0435", "U+0434", "U+0438", "U+043D", "U+0438", "U+0447", "U+043D", "U+0430", " ", "U+0446", "U+0435", "U+043D", "U+0430">>,
      <<"U+0458", "U+0435", "U+0434", ".", " ", "U+0446", "U+0435", "U+043D", "U+0430">> }

Variants_total_price ==
    { <<"i", "z", "n", "o", "s">>,
      <<"u", "k", "u", "p", "n", "o">>,
      <<"v", "r", "e", "d", "n", "o", "s", "t">>,
      <<"a", "m", "o", "u", "n", "t">>,
      <<"t", "o", "t", "a", "l">>,
      <<"s", "u", "b", "t", "o", "t", "a", "l">>,
      <<"U+0441", "U+0443", "U+043C", "U+0430">>,
      <<"U+0438", "U+0437", "U+043D", "U+043E", "U+0441">>,
      <<"U+0443", "U+043A", "U+0443", "U+043F", "U+043D", "U+043E">>,
      <<"U+0432", "U+0440", "U+0435", "U+0434", "U+043D", "U+043E", "U+0441", "U+0442">> }

COLUMN_VARIANTS ==
    [ position_id |-> Variants_position_id,
      description |-> Variants_description,
      unit |-> Variants_unit,
      quantity |-> Variants_quantity,
      unit_price |-> Variants_unit_price,
      total_price |-> Variants_total_price ]

ALLOWED_UNITS ==
    { <<"m">>,
      <<"m", "2">>,
      <<"m", "3">>,
      <<"k", "g">>,
      <<"t">>,
      <<"k", "o", "m">>,
      <<"s", "e", "t">>,
      <<"p", "a", "r">>,
      <<"d", "a", "n">>,
      <<"h">>,
      <<"U+010D">>,
      <<"k", "m">>,
      <<"l">>,
      <<"k", "w", "h">>,
      <<"g">>,
      <<"p", "a", "k">>,
      <<"r", "o", "l">>,
      <<"p", "a", "l">>,
      <<"v", "o", "z">>,
      <<"s", "a", "t">>,
      <<"m", "e", "s">>,
      <<"g", "o", "d">> }

Fields == {"position_id", "description", "unit", "quantity", "unit_price", "total_price"}

TOTAL_MARKERS ==
    { <<"u", "k", "u", "p", "n", "o">>, <<"s", "u", "m">>,
      <<"z", "b", "i", "r">>, <<"t", "o", "t", "a", "l">> }

-----------------------------------------------------------------------------
\* decimal.Decimal: the finite decimal m / 10^e (e digits after the point).
\* parse_decimal builds Decimals from numerals only, so no NaN or Infinity occurs.

Dec(m, e) == [m |-> m, e |-> e]

\* a == b and a <= b compare the values, whatever the exponents
DecEq(a, b) ==
    IF a.e >= b.e THEN a.m = b.m * Pow10(a.e - b.e) ELSE a.m * Pow10(b.e - a.e) = b.m
DecLe(a, b) ==
    IF a.e >= b.e THEN a.m <= b.m * Pow10(a.e - b.e) ELSE a.m * Pow10(b.e - a.e) <= b.m
DecMul(a, b) == Dec(a.m * b.m, a.e + b.e)
DecSub(a, b) ==
    LET e == IF a.e >= b.e THEN a.e ELSE b.e
    IN  Dec(a.m * Pow10(e - a.e) - b.m * Pow10(e - b.e), e)
DecAbs(a) == Dec(IF a.m < 0 THEN -a.m ELSE a.m, a.e)
DecIsZero(a) == a.m = 0

\* Decimal.is_nan()
is_nan(d) == FALSE

\* Decimal(0) and the tolerance Decimal("0.01")
DecZero == Dec(0, 0)
Tolerance == Dec(1, 2)

-----------------------------------------------------------------------------
\* Cell-level helpers

normalize_header_value(value) ==
    IF value = None THEN <<>>
    ELSE LET text == Lower(Strip(Str(value)))
         IN  ReplaceChar(ReplaceChar(text, "U+00B2", "2"), "U+00B3", "3")

clean_text(value) ==
    IF value = None THEN <<>>
    ELSE LET text == Strip(Str(value))
         IN  IF text = <<>> THEN <<>>
             ELSE IF Lower(text) \in { <<"n", "a", "n">>, <<"n", "o", "n", "e">>,
                                       <<"n", "u", "l", "l">> }
                  THEN <<>>
                  ELSE text

\* NUMERIC_RE.search(text).group(0) for NUMERIC_RE = -?\d+[\d.,]* : the leftmost match
\* starts at the first digit, or at a '-' right before it, and runs over the longest
\* stretch of digits, dots and commas. <<>> when text has no digit.
NumericMatch(text) ==
    LET ds == {i \in 1..Len(text) : IsDigit(text[i])}
    IN  IF ds = {} THEN <<>>
        ELSE LET d == Min(ds)
                 start == IF d > 1 /\ text[d - 1] = "-" THEN d - 1 ELSE d
                 stops == {i \in d..Len(text) : ~(IsDigit(text[i]) \/ text[i] \in {".", ","})}
                 last == IF stops = {} THEN Len(text) ELSE Min(stops) - 1
             IN  SubSeq(text, start, last)

\* the string with every occurrence of the character c removed
RECURSIVE RemoveChar(_, _)
RemoveChar(s, c) ==
    IF s = <<>> THEN <<>>
    ELSE IF Head(s) = c THEN RemoveChar(Tail(s), c)
         ELSE <<Head(s)>> \o RemoveChar(Tail(s), c)

\* the natural number written by a string of digits
RECURSIVE DigitsVal(_)
DigitsVal(s) == IF s = <<>> THEN 0 ELSE 10 * DigitsVal(SubSeq(s, 1, Len(s) - 1)) + DigitVal(s[Len(s)])

\* Decimal(number) for a numeral -?\d+[\d.]* ; None where Decimal raises
\* InvalidOperation (more than one decimal point).
DecimalOfNumeral(number) ==
    LET neg == number[1] = "-"
        body == IF neg THEN Tail(number) ELSE number
        points == {i \in 1..Len(body) : body[i] = "."}
    IN  IF Cardinality(points) > 1 THEN None
        ELSE LET e == IF points = {} THEN 0 ELSE Len(body) - Min(points)
                 m == DigitsVal(RemoveChar(body, "."))
             IN  Dec(IF neg THEN -m ELSE m, e)

\* the exception a call ends with instead of a value
Raised(exception) == [raised |-> exception]

\* the other convention: ',' separates thousands and '.' is the decimal point
parse_decimal_dot_point(value) ==
    IF value = None THEN None
    ELSE IF value.t = "nan" THEN None
    ELSE IF value.t = "bool" THEN Raised("InvalidOperation")
    ELSE IF value.t = "int" THEN Dec(value.v, 0)
    ELSE IF value.t = "float" THEN Dec(value.m, value.e)
    ELSE LET text == ReplaceChar(Strip(Str(value)), "U+00A0", " ")
         IN  IF text = <<>> THEN None
             ELSE LET match == NumericMatch(text)
                  IN  IF match = <<>> THEN None
                      ELSE DecimalOfNumeral(RemoveChar(match, ","))

\* A bool is an int to isinstance, and Decimal("True") raises InvalidOperation
\* outside the try block.
parse_decimal(value) ==
    IF value = None THEN None
    ELSE IF value.t = "nan" THEN None
    ELSE IF value.t = "bool" THEN Raised("InvalidOperation")
    ELSE IF value.t = "int" THEN Dec(value.v, 0)
    ELSE IF value.t = "float" THEN Dec(value.m, value.e)
    ELSE LET text == ReplaceChar(Strip(Str(value)), "U+00A0", " ")
         IN  IF text = <<>> THEN None
             ELSE LET match == NumericMatch(text)
                  IN  IF match = <<>> THEN None
                      ELSE DecimalOfNumeral(ReplaceChar(RemoveChar(match, "."), ",", "."))

\* a row is a total row only if a cell is exactly a marker
is_total_row_exact(values) ==
    \E i \in 1..Len(values) : normalize_header_value(values[i]) \in TOTAL_MARKERS

is_total_row(values) ==
    \E i \in 1..Len(values) :
        \E marker \in TOTAL_MARKERS : Contains(normalize_header_value(values[i]), marker)

\* row.iloc[col], col 0-based
Cell(row, col) == row[col + 1]

\* df.shape[1]
Width(df) == IF df = <<>> THEN 0 ELSE Len(df[1])

\* the row of df with 0-based index idx
Row(df, idx) == df[idx + 1]

-----------------------------------------------------------------------------
\* Header row locator

\* best_idx = None
NoHeader == -1

\* the score of one row: 2 per (cell, field) with the cell among the field's variants,
\* 1 per cell that is an allowed unit
RECURSIVE SumOver(_, _)
SumOver(f, n) == IF n = 0 THEN 0 ELSE f[n] + SumOver(f, n - 1)

RowScore(normalized) ==
    LET cellScore == [i \in 1..Len(normalized) |->
                        2 * Cardinality({c \in DOMAIN COLUMN_VARIANTS :
                                            normalized[i] \in COLUMN_VARIANTS[c]})
                        + (IF normalized[i] \in ALLOWED_UNITS THEN 1 ELSE 0)]
    IN  SumOver(cellScore, Len(normalized))

\* the loop without the break at score 4: the best row of the whole sheet
RECURSIVE FindHeaderFromNoBreak(_, _, _, _)
FindHeaderFromNoBreak(df, idx, best_idx, best_score) ==
    IF idx >= Len(df) THEN best_idx
    ELSE LET normalized == [i \in 1..Len(Row(df, idx)) |-> normalize_header_value(Row(df, idx)[i])]
             non_empty == Cardinality({i \in 1..Len(normalized) : normalized[i] # <<>>})
             score == RowScore(normalized)
             better == non_empty >= 3 /\ score > best_score
         IN  FindHeaderFromNoBreak(df, idx + 1, IF better THEN idx ELSE best_idx,
                                   IF better THEN score ELSE best_score)

\* the loop with the best row replaced on an equal score too: the last of the rows
\* tied for the best score
RECURSIVE FindHeaderFromTieLast(_, _, _, _)
FindHeaderFromTieLast(df, idx, best_idx, best_score) ==
    IF idx >= Len(df) THEN best_idx
    ELSE LET normalized == [i \in 1..Len(Row(df, idx)) |-> normalize_header_value(Row(df, idx)[i])]
             non_empty == Cardinality({i \in 1..Len(normalized) : normalized[i] # <<>>})
             score == RowScore(normalized)
             better == score >= best_score /\ score > 0
             new_idx == IF better THEN idx ELSE best_idx
             new_score == IF better THEN score ELSE best_score
         IN  IF non_empty < 3 THEN FindHeaderFromTieLast(df, idx + 1, best_idx, best_score)
             ELSE IF score >= 4 THEN new_idx
             ELSE FindHeaderFromTieLast(df, idx + 1, new_idx, new_score)

\* the for loop of find_header_row from row idx on, with the best row so far
RECURSIVE FindHeaderFrom(_, _, _, _)
FindHeaderFrom(df, idx, best_idx, best_score) ==
    IF idx >= Len(df) THEN best_idx
    ELSE LET normalized == [i \in 1..Len(Row(df, idx)) |-> normalize_header_value(Row(df, idx)[i])]
             non_empty == Cardinality({i \in 1..Len(normalized) : normalized[i] # <<>>})
             score == RowScore(normalized)
             better == score > best_score
             new_idx == IF better THEN idx ELSE best_idx
             new_score == IF better THEN score ELSE best_score
         IN  IF non_empty < 3 THEN FindHeaderFrom(df, idx + 1, best_idx, best_score)
             ELSE IF score >= 4 THEN new_idx
             ELSE FindHeaderFrom(df, idx + 1, new_idx, new_score)

\* best_score starting below 0: the first row with 3 non-empty cells is taken even
\* when it scores 0
find_header_row_any_score(df) == FindHeaderFrom(df, 0, NoHeader, -1)

find_header_row(df) == FindHeaderFrom(df, 0, NoHeader, 0)

-----------------------------------------------------------------------------
\* Column mapper. A mapping (Dict[str, int]) is a function from the mapped fields
\* to 0-based column indices.

EmptyMapping == [f \in {} |-> 0]

\* mapping[key] = value
Put(m, key, value) == [f \in (DOMAIN m) \cup {key} |-> IF f = key THEN value ELSE m[f]]

\* the loop without the test 'category not in mapping': the last match wins
RECURSIVE MatchFromLastWins(_, _, _)
MatchFromLastWins(headers, idx, m) ==
    IF idx >= Len(headers) THEN m
    ELSE LET normalized == normalize_header_value(Cell(headers, idx))
             hit == {c \in DOMAIN COLUMN_VARIANTS : normalized \in COLUMN_VARIANTS[c]}
         IN  IF normalized = <<>> THEN MatchFromLastWins(headers, idx + 1, m)
             ELSE MatchFromLastWins(headers, idx + 1,
                            [f \in (DOMAIN m) \cup hit |-> IF f \in hit THEN idx ELSE m[f]])

\* the for loop of match_columns_by_name from header cell idx on
RECURSIVE MatchFrom(_, _, _)
MatchFrom(headers, idx, m) ==
    IF idx >= Len(headers) THEN m
    ELSE LET normalized == normalize_header_value(Cell(headers, idx))
             hit == {c \in DOMAIN COLUMN_VARIANTS :
                        normalized \in COLUMN_VARIANTS[c] /\ c \notin DOMAIN m}
         IN  IF normalized = <<>> THEN MatchFrom(headers, idx + 1, m)
             ELSE MatchFrom(headers, idx + 1,
                            [f \in (DOMAIN m) \cup hit |-> IF f \in hit THEN idx ELSE m[f]])

match_columns_by_name(headers) == MatchFrom(headers, 0, EmptyMapping)

-----------------------------------------------------------------------------
\* Structural column inferrer

\* df.iloc[header_idx + 1:] as the 0-based indices of its rows
DataRows(df, hdr) == (hdr + 1)..(Len(df) - 1)

\* column_contains_units(data.iloc[:, col])
column_contains_units(df, hdr, col) ==
    Cardinality({r \in DataRows(df, hdr) :
                    normalize_header_value(Cell(Row(df, r), col)) \in ALLOWED_UNITS})

\* POSITION_PATTERN.match(text) for ^\d+(?:[.\-]\d+)*$
MatchesPositionPattern(text) ==
    /\ text # <<>>
    /\ \A i \in 1..Len(text) : IsDigit(text[i]) \/ text[i] \in {".", "-"}
    /\ IsDigit(text[1])
    /\ IsDigit(text[Len(text)])
    /\ \A i \in 1..(Len(text) - 1) : IsDigit(text[i]) \/ IsDigit(text[i + 1])

PositionHits(df, hdr, col) ==
    Cardinality({r \in DataRows(df, hdr) :
                    MatchesPositionPattern(normalize_header_value(Cell(Row(df, r), col)))})

\* the highest column among those with the greatest score
LastMaxCol(score, width) ==
    Max({c \in 0..(width - 1) : \A d \in 0..(width - 1) : score[d] <= score[c]})

\* max(scores, key=scores.get), and the strict '>' scan of the position_id loop:
\* the lowest column among those with the greatest score
FirstMaxCol(score, width) ==
    Min({c \in 0..(width - 1) : \A d \in 0..(width - 1) : score[d] <= score[c]})

InferUnit(df, hdr, m) ==
    IF "unit" \in DOMAIN m THEN m
    ELSE Put(m, "unit",
             FirstMaxCol([c \in 0..(Width(df) - 1) |-> column_contains_units(df, hdr, c)],
                         Width(df)))

\* the quantity column inferred whether or not a header cell names it
InferQuantityAlways(df, m) ==
    LET candidate == IF m["unit"] > 0 THEN m["unit"] - 1 ELSE m["unit"]
    IN  Put(m, "quantity", IF candidate > 0 THEN candidate ELSE 0)

InferQuantity(df, m) ==
    IF "quantity" \in DOMAIN m THEN m
    ELSE LET candidate == IF m["unit"] > 0 THEN m["unit"] - 1 ELSE m["unit"]
         IN  Put(m, "quantity", IF candidate > 0 THEN candidate ELSE 0)

\* the column right of the unit, without the fallback at the last column
InferTotalPriceUnclamped(df, m) ==
    IF "total_price" \in DOMAIN m THEN m
    ELSE Put(m, "total_price", m["unit"] + 1)

InferTotalPrice(df, m) ==
    IF "total_price" \in DOMAIN m THEN m
    ELSE LET candidate == m["unit"] + 1
         IN  Put(m, "total_price", IF candidate < Width(df) THEN candidate ELSE m["unit"])

\* the column right of the quantity, without the clamp to the last column
InferUnitPriceUnclamped(df, m) ==
    IF "unit_price" \in DOMAIN m THEN m
    ELSE LET potential == m["quantity"] + 1
         IN  IF potential # m["unit"]
             THEN Put(m, "unit_price", potential)
             ELSE Put(m, "unit_price", m["unit"])

InferUnitPrice(df, m) ==
    IF "unit_price" \in DOMAIN m THEN m
    ELSE LET potential == m["quantity"] + 1
         IN  IF potential # m["unit"]
             THEN Put(m, "unit_price",
                      IF potential < Width(df) - 1 THEN potential ELSE Width(df) - 1)
             ELSE Put(m, "unit_price", m["unit"])

InferPositionId(df, hdr, m) ==
    IF "position_id" \in DOMAIN m THEN m
    ELSE Put(m, "position_id",
             FirstMaxCol([c \in 0..(Width(df) - 1) |-> PositionHits(df, hdr, c)], Width(df)))

InferDescription(df, m) ==
    IF "description" \in DOMAIN m THEN m
    ELSE LET best_col == m["position_id"] + 1
         IN  Put(m, "description", IF best_col < Width(df) - 1 THEN best_col ELSE Width(df) - 1)

\* the ColumnMapping returned; the fields are filled in the order of the code
infer_columns_structurally(df, hdr, m) ==
    InferDescription(df,
      InferPositionId(df, hdr,
        InferUnitPrice(df,
          InferTotalPrice(df,
            InferQuantity(df,
              InferUnit(df, hdr, m))))))

-----------------------------------------------------------------------------
\* Numeric integrity checker

\* the f-string warnings, as records of their kind and interpolated values
MissingDescriptionWarning(sheet, id) ==
    [kind |-> "missing description", sheet |-> sheet, position_id |-> id]
ComparisonFailedWarning(id, difference) ==
    [kind |-> "total comparison failed", position_id |-> id, difference |-> difference]
TotalMismatchWarning(id, source, computed) ==
    [kind |-> "total mismatch", position_id |-> id, source |-> source, computed |-> computed]
MissingQuantityWarning(id) == [kind |-> "missing quantity", position_id |-> id]
MissingUnitPriceWarning(id) == [kind |-> "missing unit price", position_id |-> id]
MissingUnitWarning(id) == [kind |-> "missing unit of measure", position_id |-> id]
HeaderNotDetectedWarning == [kind |-> "Header row could not be detected"]

\* difference <= Decimal("0.01") raises InvalidOperation only on a NaN operand
ComparisonRaises(difference) == is_nan(difference)

\* the trailing checks with the numbers tested for truth: Decimal(0) is falsy
MissingFieldWarningsFalsy(position) ==
    (IF position.quantity = None \/ DecIsZero(position.quantity)
     THEN <<MissingQuantityWarning(position.position_id)>> ELSE <<>>)
    \o (IF position.unit_price = None \/ DecIsZero(position.unit_price)
        THEN <<MissingUnitPriceWarning(position.position_id)>> ELSE <<>>)
    \o (IF position.unit = <<>> THEN <<MissingUnitWarning(position.position_id)>> ELSE <<>>)

\* the three trailing checks of enforce_numeric_integrity
MissingFieldWarnings(position) ==
    (IF position.quantity = None THEN <<MissingQuantityWarning(position.position_id)>> ELSE <<>>)
    \o (IF position.unit_price = None
        THEN <<MissingUnitPriceWarning(position.position_id)>> ELSE <<>>)
    \o (IF position.unit = <<>> THEN <<MissingUnitWarning(position.position_id)>> ELSE <<>>)

\* quantity * unit_price with None read as Decimal(0) (lines 405-407)
ComputedTotal(position) ==
    LET quantity == IF position.quantity # None THEN position.quantity ELSE DecZero
        unit_price == IF position.unit_price # None THEN position.unit_price ELSE DecZero
    IN  DecMul(quantity, unit_price)

\* position.total_price is None
NoDeclaredTotalNoneOnly(position) == position.total_price = None

\* position.total_price is None or position.total_price == Decimal(0)
NoDeclaredTotal(position) ==
    position.total_price = None \/ DecEq(position.total_price, DecZero)

\* difference < Decimal("0.01")
WithinToleranceStrict(difference) == ~DecLe(Tolerance, difference)

\* difference <= Decimal("0.01")
WithinTolerance(difference) == DecLe(difference, Tolerance)

\* a mismatch that is not reported
MismatchWarningsSilent(position, computed) == <<>>

\* the warning of a total that does not match (lines 427-430)
MismatchWarnings(position, computed) ==
    IF ~position.total_matches
    THEN <<TotalMismatchWarning(position.position_id, position.total_price, computed)>>
    ELSE <<>>

\* a position without a declared total keeps the total it has
enforce_numeric_integrity_keep_total(position, warns) ==
    LET computed == ComputedTotal(position)
        p1 == [position EXCEPT !.computed_total = computed]
    IN  IF NoDeclaredTotal(p1)
        THEN LET p2 == [p1 EXCEPT !.total_matches = TRUE]
             IN  [position |-> p2, warnings |-> warns \o MissingFieldWarnings(p2)]
        ELSE LET difference == DecAbs(DecSub(p1.total_price, computed))
                 p2 == [p1 EXCEPT !.total_matches = WithinTolerance(difference)]
             IN  [position |-> p2,
                  warnings |-> warns \o MismatchWarnings(p2, computed)
                                     \o MissingFieldWarnings(p2)]

\* enforce_numeric_integrity(position, warnings): the position and the warning list after it
enforce_numeric_integrity(position, warns) ==
    LET computed == ComputedTotal(position)
        p1 == [position EXCEPT !.computed_total = computed]
    IN  IF NoDeclaredTotal(p1)
        THEN LET p2 == [p1 EXCEPT !.total_price = computed, !.total_matches = TRUE]
             IN  [position |-> p2, warnings |-> warns \o MissingFieldWarnings(p2)]
        ELSE IF is_nan(p1.total_price)
        THEN LET p2 == [p1 EXCEPT !.total_price = computed, !.total_matches = TRUE]
             IN  [position |-> p2, warnings |-> warns \o MissingFieldWarnings(p2)]
        ELSE LET difference == DecAbs(DecSub(p1.total_price, computed))
             IN  IF ComparisonRaises(difference)
                 THEN [position |-> [p1 EXCEPT !.total_matches = FALSE],
                       warnings |-> Append(warns,
                                      ComparisonFailedWarning(p1.position_id, difference))]
                 ELSE LET p2 == [p1 EXCEPT !.total_matches = WithinTolerance(difference)]
                      IN  [position |-> p2,
                           warnings |-> warns \o MismatchWarnings(p2, computed)
                                              \o MissingFieldWarnings(p2)]

-----------------------------------------------------------------------------
\* Position assembler

\* BoQPosition(discipline, position_id, "", "", None, None, None, [rel_idx])
NewPosition(disc, raw_id, idx) ==
    [discipline |-> disc, position_id |-> raw_id, description |-> <<>>, unit |-> <<>>,
     quantity |-> None, unit_price |-> None, total_price |-> None,
     source_row_indices |-> <<idx>>, computed_total |-> None, total_matches |-> TRUE]

\* " ".join(filter(None, parts)).strip()
RECURSIVE JoinParts(_)
JoinParts(parts) ==
    IF parts = <<>> THEN <<>>
    ELSE IF Head(parts) = <<>> THEN JoinParts(Tail(parts))
    ELSE LET rest == JoinParts(Tail(parts))
         IN  IF rest = <<>> THEN Head(parts) ELSE Head(parts) \o <<" ">> \o rest

JoinDescription(parts) == Strip(JoinParts(parts))

\* the finalization of current (lines 354-360 and 393-399): the description is set, a
\* missing description is warned of, the integrity check runs, the position is appended
FinalizePosition(cur, parts, disc, warns) ==
    LET described == [cur EXCEPT !.description = JoinDescription(parts)]
        w1 == IF described.description = <<>>
              THEN Append(warns, MissingDescriptionWarning(disc, described.position_id))
              ELSE warns
    IN  enforce_numeric_integrity(described, w1)

\* the integrity check runs a second time on the position before it is appended
FinalizeRechecked(cur, parts, disc, poss, warns) ==
    LET checked == FinalizePosition(cur, parts, disc, warns)
        again == enforce_numeric_integrity(checked.position, checked.warnings)
    IN  [positions |-> Append(poss, again.position), warnings |-> again.warnings]

Finalize(cur, parts, disc, poss, warns) ==
    LET checked == FinalizePosition(cur, parts, disc, warns)
    IN  [positions |-> Append(poss, checked.position), warnings |-> checked.warnings]

\* if current: ... positions.append(current), on a new-position row (lines 353-360)
CloseOnNewItem(cur, parts, disc, poss, warns) ==
    IF cur # None THEN Finalize(cur, parts, disc, poss, warns)
    ELSE [positions |-> poss, warnings |-> warns]

\* the position still open after the last row is not appended
CloseAtEndDropLast(cur, parts, disc, poss, warns) ==
    [positions |-> poss, warnings |-> warns]

\* if current: ... positions.append(current), after the last row (lines 392-399)
CloseAtEnd(cur, parts, disc, poss, warns) ==
    IF cur # None THEN Finalize(cur, parts, disc, poss, warns)
    ELSE [positions |-> poss, warnings |-> warns]

\* a row met before any position opens one, whatever its position cell
StartPositionWhenNone(cur, is_new_item, disc, raw_id, idx) ==
    IF is_new_item \/ cur = None THEN NewPosition(disc, raw_id, idx) ELSE cur

\* current after lines 352-371: a fresh position on a new-position row
StartPosition(cur, is_new_item, disc, raw_id, idx) ==
    IF is_new_item THEN NewPosition(disc, raw_id, idx) ELSE cur

\* the fill-once updates of lines 380-390
\* the first non-empty token taken as unit, in the vocabulary or not
FillUnitAnyToken(cur, unit_token) ==
    IF unit_token # <<>> /\ cur.unit = <<>>
    THEN [cur EXCEPT !.unit = unit_token] ELSE cur

FillUnit(cur, unit_token) ==
    IF unit_token # <<>> /\ unit_token \in ALLOWED_UNITS /\ cur.unit = <<>>
    THEN [cur EXCEPT !.unit = unit_token] ELSE cur

FillQuantity(cur, quantity) ==
    IF quantity # None /\ (cur.quantity = None \/ DecEq(cur.quantity, DecZero))
    THEN [cur EXCEPT !.quantity = quantity] ELSE cur

\* the last stated unit price wins
FillUnitPriceLastWins(cur, unit_price) ==
    IF unit_price # None THEN [cur EXCEPT !.unit_price = unit_price] ELSE cur

FillUnitPrice(cur, unit_price) ==
    IF unit_price # None /\ (cur.unit_price = None \/ DecEq(cur.unit_price, DecZero))
    THEN [cur EXCEPT !.unit_price = unit_price] ELSE cur

FillTotalPrice(cur, total_price) ==
    IF total_price # None /\ (cur.total_price = None \/ DecEq(cur.total_price, DecZero))
    THEN [cur EXCEPT !.total_price = total_price] ELSE cur

\* the values parse_positions reads from one row (lines 343-348)
RawId(row, cm) == clean_text(Cell(row, cm["position_id"]))
DescFragment(row, cm) == clean_text(Cell(row, cm["description"]))
UnitToken(row, cm) ==
    IF cm["unit"] < Len(row) THEN normalize_header_value(Cell(row, cm["unit"])) ELSE <<>>
RowQuantity(row, cm) ==
    IF cm["quantity"] < Len(row) THEN parse_decimal(Cell(row, cm["quantity"])) ELSE None
\* a unit price cell that yields no number counts as zero
RowUnitPriceOrZero(row, cm) ==
    LET parsed == IF cm["unit_price"] < Len(row)
                  THEN parse_decimal(Cell(row, cm["unit_price"])) ELSE None
    IN  IF parsed = None THEN DecZero ELSE parsed

RowUnitPrice(row, cm) ==
    IF cm["unit_price"] < Len(row) THEN parse_decimal(Cell(row, cm["unit_price"])) ELSE None
RowTotalPrice(row, cm) ==
    IF cm["total_price"] < Len(row) THEN parse_decimal(Cell(row, cm["total_price"])) ELSE None

\* lines 346-348: a call of parse_decimal on the row raises
RowRaises(row, cm) ==
    \E parsed \in {RowQuantity(row, cm), RowUnitPrice(row, cm), RowTotalPrice(row, cm)} :
        parsed = Raised("InvalidOperation")

\* lines 376-390: the row is recorded and merged into current
MergeRow(cur, row, cm, idx) ==
    FillTotalPrice(
      FillUnitPrice(
        FillQuantity(
          FillUnit([cur EXCEPT !.source_row_indices = Append(@, idx)], UnitToken(row, cm)),
          RowQuantity(row, cm)),
        RowUnitPrice(row, cm)),
      RowTotalPrice(row, cm))

-----------------------------------------------------------------------------
\* Input sheets. Every sheet is six columns wide; an empty cell is NaN.

TxPoz == StrCell(<<"P", "o", "z", ".">>)
TxOpis == StrCell(<<"O", "p", "i", "s">>)
TxJM == StrCell(<<"J", "M">>)
TxKolicina == StrCell(<<"K", "o", "l", "i", "U+010D", "i", "n", "a">>)
TxKol == StrCell(<<"K", "o", "l", ".">>)
TxJedCena == StrCell(<<"J", "e", "d", ".", " ", "c", "e", "n", "a">>)
TxIznos == StrCell(<<"I", "z", "n", "o", "s">>)
TxQty == StrCell(<<"Q", "t", "y">>)
TxTitle == StrCell(<<"P", "r", "e", "d", "m", "e", "r">>)

\* the header of a well-formed sheet: all six fields named
HeaderFull == <<TxPoz, TxOpis, TxJM, TxKolicina, TxJedCena, TxIznos>>
\* only position and description named
HeaderPozOpis == <<TxPoz, TxOpis, NaN, NaN, NaN, NaN>>
\* position, description and unit price unnamed
HeaderUnitQtyTotal == <<NaN, NaN, TxJM, TxKol, NaN, TxIznos>>
\* the unit in the last column
HeaderUnitLast == <<TxPoz, TxOpis, TxKol, NaN, NaN, TxJM>>
\* the unit in the first column, the quantity in the last
HeaderUnitFirst == <<TxJM, TxOpis, NaN, NaN, NaN, TxQty>>
\* a title line, no header cells
TitleRow == <<TxTitle, NaN, NaN, NaN, NaN, NaN>>

\* the rows up to and including the intended header row
HeaderBlocks ==
    { <<HeaderFull>>, <<TitleRow, HeaderFull>>, <<HeaderPozOpis>>, <<HeaderUnitQtyTotal>>,
      <<HeaderUnitLast>>, <<HeaderUnitFirst>>, <<TitleRow>> }

\* data rows, laid out as position, description, unit, quantity, unit price, total
RowBeton ==
    <<StrCell(<<"1">>), StrCell(<<"B", "e", "t", "o", "n">>), StrCell(<<"m", "3">>),
      StrCell(<<"1", "0">>), StrCell(<<"1", "0", "0">>), StrCell(<<"1", "0", "0", "0">>)>>
\* total off by exactly 0.01: 4 * 0,5 against 2,01
RowOplata ==
    <<StrCell(<<"2">>), StrCell(<<"O", "p", "l", "a", "t", "a", " ">>),
      StrCell(<<"M", "U+00B2">>), IntCell(4), StrCell(<<"0", ",", "5">>),
      StrCell(<<"2", ",", "0", "1">>)>>
\* a priced position without a declared total
RowMalter ==
    <<StrCell(<<"5">>), StrCell(<<"M", "a", "l", "t", "e", "r">>), StrCell(<<"m", "2">>),
      IntCell(2), IntCell(3), NaN>>
\* a position code and nothing else
RowBare == <<StrCell(<<"1", ".", "2">>), NaN, NaN, NaN, NaN, NaN>>
\* a continuation row with description text only
RowText == <<NaN, StrCell(<<"a", "r", "m", "a", "t", "u", "r", "a">>), NaN, NaN, NaN, NaN>>
\* a continuation row with a unit, zero quantity, a price and a zero total
RowZero ==
    <<NaN, NaN, StrCell(<<"k", "g">>), FloatCell(0, 1), StrCell(<<"0", ",", "5">>),
      StrCell(<<"0">>)>>
\* a continuation row with an unknown unit, an uninterpretable price and a total
\* (off by 0.011 from 2 * 3)
RowOdd ==
    <<NaN, StrCell(<<"M", "B", " ", "3", "0">>), StrCell(<<"p", "a", "u", "s">>), NaN,
      StrCell(<<"a", "b", "c">>), StrCell(<<"6", ",", "0", "1", "1">>)>>
\* a subtotal row that bears a position code and values
RowUkupno ==
    <<StrCell(<<"4">>), StrCell(<<"U", "K", "U", "P", "N", "O", " ", "A">>), StrCell(<<"t">>),
      StrCell(<<"7">>), StrCell(<<"3">>), StrCell(<<"2", "1">>)>>

DataRowSet ==
    {RowBeton, RowOplata, RowMalter, RowBare, RowText, RowZero, RowOdd, RowUkupno}

\* the most data rows below the header block
MaxDataRows == 3

RECURSIVE SeqsUpTo(_, _)
SeqsUpTo(S, n) ==
    IF n = 0 THEN {<<>>}
    ELSE LET shorter == SeqsUpTo(S, n - 1)
         IN  shorter \cup {Append(s, x) : s \in {t \in shorter : Len(t) = n - 1}, x \in S}

Sheets == {h \o d : h \in HeaderBlocks, d \in SeqsUpTo(DataRowSet, MaxDataRows)}

SheetName == <<"G", "K", " ">>

\* A sheet of the workbook: its name, whether excel.parse can read it, and the rows
\* excel.parse returns.
Sheet(name, readable, rows) == [name |-> name, readable |-> readable, rows |-> rows]

\* workbooks of one sheet
Workbooks == {<<Sheet(SheetName, TRUE, s)>> : s \in Sheets}

-----------------------------------------------------------------------------
\* The driver: BoQParser.parse_workbook

DisciplineResult(disc, name, poss, warns) ==
    [discipline |-> disc, sheet_name |-> name, positions |-> poss, warnings |-> warns]

Init ==
    /\ workbook \in Workbooks
    /\ sheet_no = 0
    /\ pc = "next_sheet"
    /\ raw_df = <<>>
    /\ discipline = <<>>
    /\ header_idx = NoHeader
    /\ mapping = EmptyMapping
    /\ colmap = EmptyMapping
    /\ rel_idx = 0
    /\ current = None
    /\ description_parts = <<>>
    /\ positions = <<>>
    /\ warnings = <<>>
    /\ results = <<>>
    /\ excel = "open"
    /\ previous = <<>>
    /\ payload = <<>>
    /\ arg = None
    /\ ret = None

\* for sheet_name in excel.sheet_names: raw_df = excel.parse(...); discipline = ...
NextSheet ==
    /\ pc = "next_sheet"
    /\ sheet_no < Len(workbook)
    /\ workbook[sheet_no + 1].readable
    /\ sheet_no' = sheet_no + 1
    /\ raw_df' = workbook[sheet_no + 1].rows
    /\ discipline' = Strip(workbook[sheet_no + 1].name)
    /\ pc' = "find_header"
    /\ UNCHANGED <<workbook, header_idx, mapping, colmap, rel_idx, current,
                   description_parts, positions, warnings, results>>
    /\ UNCHANGED <<caller_vars, fn_vars>>

\* header_idx = find_header_row(raw_df), and the result of a sheet without a header
FindHeaderRow ==
    /\ pc = "find_header"
    /\ header_idx' = find_header_row(raw_df)
    /\ IF header_idx' = NoHeader
       THEN /\ results' = Append(results,
                            DisciplineResult(discipline, workbook[sheet_no].name, <<>>,
                                             <<HeaderNotDetectedWarning>>))
            /\ pc' = "next_sheet"
       ELSE /\ results' = results
            /\ pc' = "match_columns"
    /\ UNCHANGED <<workbook, sheet_no, raw_df, discipline, mapping, colmap, rel_idx, current,
                   description_parts, positions, warnings>>
    /\ UNCHANGED <<caller_vars, fn_vars>>

\* mapping = match_columns_by_name(raw_df.iloc[header_idx].tolist())
MatchColumns ==
    /\ pc = "match_columns"
    /\ mapping' = match_columns_by_name(Row(raw_df, header_idx))
    /\ pc' = "infer_columns"
    /\ UNCHANGED <<workbook, sheet_no, raw_df, discipline, header_idx, colmap, rel_idx,
                   current, description_parts, positions, warnings, results>>
    /\ UNCHANGED <<caller_vars, fn_vars>>

\* parse_positions going on with the positions and warnings of the sheet before
InferColumnsCarryOver ==
    /\ pc = "infer_columns"
    /\ colmap' = infer_columns_structurally(raw_df, header_idx, mapping)
    /\ current' = None
    /\ description_parts' = <<>>
    /\ mapping' = colmap'
    /\ rel_idx' = header_idx + 1
    /\ pc' = "parse_positions"
    /\ UNCHANGED <<workbook, sheet_no, raw_df, discipline, header_idx, results,
                   positions, warnings>>
    /\ UNCHANGED <<caller_vars, fn_vars>>

\* colmap = infer_columns_structurally(raw_df, header_idx, mapping), which also puts
\* the inferred fields into the dict mapping it is given (lines 243-274), then the
\* entry of parse_positions (lines 333-338)
InferColumns ==
    /\ pc = "infer_columns"
    /\ colmap' = infer_columns_structurally(raw_df, header_idx, mapping)
    /\ mapping' = colmap'
    /\ positions' = <<>>
    /\ warnings' = <<>>
    /\ current' = None
    /\ description_parts' = <<>>
    /\ rel_idx' = header_idx + 1
    /\ pc' = "parse_positions"
    /\ UNCHANGED <<workbook, sheet_no, raw_df, discipline, header_idx, results>>
    /\ UNCHANGED <<caller_vars, fn_vars>>

\* one iteration of the row loop of parse_positions (lines 338-390)
ParseRow ==
    /\ pc = "parse_positions"
    /\ rel_idx < Len(raw_df)
    /\ is_total_row(Row(raw_df, rel_idx)) \/ ~RowRaises(Row(raw_df, rel_idx), colmap)
    /\ LET row == Row(raw_df, rel_idx)
           raw_id == RawId(row, colmap)
           desc_fragment == DescFragment(row, colmap)
           is_new_item == raw_id # <<>>
           closed == IF is_new_item
                     THEN CloseOnNewItem(current, description_parts, discipline, positions,
                                         warnings)
                     ELSE [positions |-> positions, warnings |-> warnings]
           started == StartPosition(current, is_new_item, discipline, raw_id, rel_idx)
           parts == IF is_new_item THEN <<>> ELSE description_parts
       IN  IF is_total_row(row)
           THEN UNCHANGED <<current, description_parts, positions, warnings>>
           ELSE /\ positions' = closed.positions
                /\ warnings' = closed.warnings
                /\ IF started = None
                   THEN /\ current' = started
                        /\ description_parts' = parts
                   ELSE /\ current' = MergeRow(started, row, colmap, rel_idx)
                        /\ description_parts' =
                              IF desc_fragment # <<>> THEN Append(parts, desc_fragment) ELSE parts
    /\ rel_idx' = rel_idx + 1
    /\ UNCHANGED <<workbook, sheet_no, pc, raw_df, discipline, header_idx, mapping, colmap,
                   results>>
    /\ UNCHANGED <<caller_vars, fn_vars>>

\* the end of the row loop (lines 392-401) and results.append(DisciplineResult(...))
EndOfSheet ==
    /\ pc = "parse_positions"
    /\ rel_idx >= Len(raw_df)
    /\ LET closed == CloseAtEnd(current, description_parts, discipline, positions, warnings)
       IN  /\ positions' = closed.positions
           /\ warnings' = closed.warnings
           \* current is the object enforce_numeric_integrity has returned
           /\ current' = IF current # None
                         THEN FinalizePosition(current, description_parts, discipline,
                                               warnings).position
                         ELSE current
           /\ results' = Append(results,
                           DisciplineResult(discipline, workbook[sheet_no].name,
                                            closed.positions, closed.warnings))
    /\ pc' = "next_sheet"
    /\ UNCHANGED <<workbook, sheet_no, raw_df, discipline, header_idx, mapping, colmap,
                   rel_idx, description_parts>>
    /\ UNCHANGED <<caller_vars, fn_vars>>

\* return results
Return ==
    /\ pc = "next_sheet"
    /\ sheet_no = Len(workbook)
    /\ pc' = "returned"
    /\ UNCHANGED <<workbook, sheet_no, raw_df, discipline, header_idx, mapping, colmap,
                   rel_idx, current, description_parts, positions, warnings, results>>
    /\ UNCHANGED <<caller_vars, fn_vars>>

Next == NextSheet \/ FindHeaderRow \/ MatchColumns \/ InferColumns \/ ParseRow
        \/ EndOfSheet \/ Return

Spec == Init /\ [][Next]_vars

-----------------------------------------------------------------------------
\* Whole workbooks: several sheets, sheets that cannot be parsed, the caller's use of
\* the results, and a second call on the same workbook.

\* a row with a TRUE cell in the quantity column
RowBool ==
    <<StrCell(<<"3">>), StrCell(<<"P", "r", "o", "b", "a">>), StrCell(<<"k", "o", "m">>),
      BoolCell(TRUE), StrCell(<<"1">>), StrCell(<<"1">>)>>

\* a position with a continuation row, and a position whose declared total is off by
\* 0.01
SheetPlain ==
    Sheet(<<"G", "K", " ">>, TRUE, <<HeaderFull, RowBeton, RowText, RowOplata>>)
\* a title line above the header; a position whose declared total is off by 0.011,
\* and a position without description and numbers
SheetMismatch ==
    Sheet(<<" ", "A", "R">>, TRUE, <<TitleRow, HeaderFull, RowMalter, RowOdd, RowBare>>)
\* no row with a header cell or a unit
SheetNoHeader ==
    Sheet(<<"O", "p", "U+0161", "t", "e">>, TRUE, <<TitleRow, RowText>>)
\* no rows at all
SheetEmpty == Sheet(<<"L", "i", "s", "t", "1">>, TRUE, <<>>)
\* the second data row has a bool in the quantity column
SheetBool == Sheet(<<"E", "L">>, TRUE, <<HeaderFull, RowBeton, RowBool>>)
\* excel.parse raises on this sheet
SheetUnreadable == Sheet(<<"V", "K">>, FALSE, <<>>)

NamedSheets ==
    {SheetPlain, SheetMismatch, SheetNoHeader, SheetEmpty, SheetBool, SheetUnreadable}

\* the most sheets of a workbook
MaxSheets == 2

\* the most calls of parse_workbook on one workbook
MaxCalls == 2

\* sheet names are unique within a workbook
SheetLists ==
    {w \in SeqsUpTo(NamedSheets, MaxSheets) :
        \A i, j \in 1..Len(w) : w[i].name = w[j].name => i = j}

InitWorkbook ==
    /\ workbook \in SheetLists \ {<<>>}
    /\ sheet_no = 0
    /\ pc = "next_sheet"
    /\ raw_df = <<>>
    /\ discipline = <<>>
    /\ header_idx = NoHeader
    /\ mapping = EmptyMapping
    /\ colmap = EmptyMapping
    /\ rel_idx = 0
    /\ current = None
    /\ description_parts = <<>>
    /\ positions = <<>>
    /\ warnings = <<>>
    /\ results = <<>>
    /\ excel = "open"
    /\ previous = <<>>
    /\ payload = <<>>
    /\ arg = None
    /\ ret = None

\* raw_df = excel.parse(...) raises; nothing catches it
ReadSheetRaises ==
    /\ pc = "next_sheet"
    /\ sheet_no < Len(workbook)
    /\ ~workbook[sheet_no + 1].readable
    /\ sheet_no' = sheet_no + 1
    /\ pc' = "raised"
    /\ UNCHANGED <<workbook, raw_df, discipline, header_idx, mapping, colmap, rel_idx,
                   current, description_parts, positions, warnings, results>>
    /\ UNCHANGED <<caller_vars, fn_vars>>

\* parse_decimal raises in the row loop (lines 346-348), before the row changes
\* anything; neither parse_positions nor parse_workbook catches it
ParseRowRaises ==
    /\ pc = "parse_positions"
    /\ rel_idx < Len(raw_df)
    /\ ~is_total_row(Row(raw_df, rel_idx))
    /\ RowRaises(Row(raw_df, rel_idx), colmap)
    /\ pc' = "raised"
    /\ UNCHANGED <<workbook, sheet_no, raw_df, discipline, header_idx, mapping, colmap,
                   rel_idx, current, description_parts, positions, warnings, results>>
    /\ UNCHANGED <<caller_vars, fn_vars>>

\* float(d) of a Decimal: the double nearest to d, written as the decimal it prints as
\* (the numerals here have few digits, so the double prints as d does)
Float(d) == [float |-> d]

\* the payload with computed_total whether or not the totals match
to_dict_with_computed(position) ==
    [discipline |-> position.discipline,
     position_id |-> position.position_id,
     description |-> position.description,
     unit |-> position.unit,
     quantity |-> IF position.quantity # None THEN Float(position.quantity)
                  ELSE Float(DecZero),
     unit_price |-> IF position.unit_price # None THEN Float(position.unit_price)
                    ELSE Float(DecZero),
     total_price |-> IF position.total_price # None THEN Float(position.total_price)
                     ELSE Float(DecZero),
     computed_total |-> Float(position.computed_total)]

\* BoQPosition.to_dict: a record with the keys of the payload
to_dict(position) ==
    LET quantity == IF position.quantity # None THEN Float(position.quantity)
                    ELSE Float(DecZero)
        unit_price == IF position.unit_price # None THEN Float(position.unit_price)
                      ELSE Float(DecZero)
        total_price == IF position.total_price # None THEN Float(position.total_price)
                       ELSE Float(DecZero)
        base == [discipline |-> position.discipline,
                 position_id |-> position.position_id,
                 description |-> position.description,
                 unit |-> position.unit,
                 quantity |-> quantity,
                 unit_price |-> unit_price,
                 total_price |-> total_price]
    IN  IF ~position.total_matches /\ position.computed_total # None
        THEN [k \in DOMAIN base \cup {"computed_total"} |->
                IF k = "computed_total" THEN Float(position.computed_total) ELSE base[k]]
        ELSE base

\* DisciplineResult.to_dict
result_to_dict(result) ==
    [discipline |-> result.discipline,
     sheet_name |-> result.sheet_name,
     positions |-> [i \in 1..Len(result.positions) |-> to_dict(result.positions[i])],
     warnings |-> result.warnings]

\* the caller converts the returned results to plain records
ToDict ==
    /\ pc = "returned"
    /\ payload = <<>>
    /\ payload' = <<[k \in 1..Len(results) |-> result_to_dict(results[k])]>>
    /\ UNCHANGED <<call_vars, excel, previous, fn_vars>>

\* what the caller has of a finished call
Outcome == [status |-> pc, results |-> IF pc = "returned" THEN results ELSE <<>>]

\* a further call that goes on with the results of the call before, as it would if
\* the parser object kept them
CallAgainKeepResults ==
    /\ pc \in {"returned", "raised"}
    /\ Len(previous) < MaxCalls - 1
    /\ previous' = Append(previous, Outcome)
    /\ excel' = "open"
    /\ sheet_no' = 0
    /\ pc' = "next_sheet"
    /\ payload' = <<>>
    /\ UNCHANGED <<workbook, raw_df, discipline, header_idx, mapping, colmap, rel_idx,
                   current, description_parts, positions, warnings, results>>
    /\ UNCHANGED fn_vars

\* The caller calls parse_workbook on the same workbook once more: a new handle is
\* opened and results starts empty (lines 444-445); every other local of the call
\* before is as that call left it, until the new call assigns it.
CallAgain ==
    /\ pc \in {"returned", "raised"}
    /\ Len(previous) < MaxCalls - 1
    /\ previous' = Append(previous, Outcome)
    /\ excel' = "open"
    /\ results' = <<>>
    /\ sheet_no' = 0
    /\ pc' = "next_sheet"
    /\ payload' = <<>>
    /\ UNCHANGED <<workbook, raw_df, discipline, header_idx, mapping, colmap, rel_idx,
                   current, description_parts, positions, warnings>>
    /\ UNCHANGED fn_vars

NextWorkbook == Next \/ ReadSheetRaises \/ ParseRowRaises \/ ToDict \/ CallAgain

SpecWorkbook == InitWorkbook /\ [][NextWorkbook]_vars

-----------------------------------------------------------------------------
\* Properties

\* the sheet has been parsed to its end
SheetParsed == pc \in {"next_sheet", "returned"} /\ sheet_no >= 1 /\ header_idx # NoHeader

\* this step appends a finalized position: current is the position before the
\* integrity check, Appended the position as appended
Appends == pc = "parse_positions" /\ Len(positions') = Len(positions) + 1
Appended == positions'[Len(positions')]

\* the warnings this step adds
NewWarnings == SubSeq(warnings', Len(warnings) + 1, Len(warnings'))

\* how many of the warnings ws are of the given kind and position
CountWarnings(ws, kind, id) ==
    Cardinality({i \in 1..Len(ws) : ws[i].kind = kind /\ ws[i].position_id = id})

\* d, or 0 if null
OrZero(d) == IF d = None THEN Dec(0, 0) ELSE d

\* |a - b| <= 0.01
Within001(a, b) == DecLe(DecAbs(DecSub(a, b)), Dec(1, 2))

\* C1: once a header row is found and its cells are matched by name, the inferred
\* ColumnMapping assigns each of the six fields a column index i with 0 <= i < width.
C1_MappingTotalInRange ==
    pc = "parse_positions" =>
        /\ DOMAIN colmap = Fields
        /\ \A f \in Fields : colmap[f] >= 0 /\ colmap[f] < Width(raw_df)

\* a partial name match whose unit is the last column, so that total_price falls back
C1_Witness ==
    /\ pc = "parse_positions"
    /\ "total_price" \notin DOMAIN match_columns_by_name(Row(raw_df, header_idx))
    /\ colmap["unit"] = Width(raw_df) - 1
    /\ colmap["total_price"] = colmap["unit"]

\* C2: every position's description is the single-space join, trimmed, of the non-empty
\* description fragments of the rows listed in its source_row_indices, in listed order.
C2_DescriptionFromListedRows ==
    \A k \in 1..Len(positions) :
        LET sri == positions[k].source_row_indices
        IN  positions[k].description =
                JoinDescription([i \in 1..Len(sri) |->
                                    DescFragment(Row(raw_df, sri[i]), colmap)])

\* C3: a finalized position's computed_total is (quantity or 0) * (unit_price or 0), and
\* when the declared total is present and non-zero, total_matches is true exactly when
\* |declared total - computed_total| <= 0.01.
C3_ComputedTotalAndMatch ==
    [][Appends =>
        /\ Appended.computed_total = DecMul(OrZero(current.quantity), OrZero(current.unit_price))
        /\ Appended.quantity = current.quantity
        /\ Appended.unit_price = current.unit_price
        /\ (current.total_price # None /\ ~DecIsZero(current.total_price)) =>
              (Appended.total_matches <=> Within001(current.total_price, Appended.computed_total))
      ]_vars

\* a position whose declared total differs from the computed one and still matches
C3_Witness ==
    \E k \in 1..Len(positions) :
        /\ positions[k].total_matches
        /\ positions[k].quantity # None
        /\ positions[k].unit_price # None
        /\ ~DecEq(positions[k].total_price, positions[k].computed_total)

\* the rows of a position, each once
PositionRows(p) == {p.source_row_indices[i] : i \in 1..Len(p.source_row_indices)}

\* C4: when the declared total of a finalized position is null or exactly zero, the
\* integrity check sets total_price to computed_total and total_matches to true and
\* appends no total-mismatch warning for the position.
C4_NoDeclaredTotalAdoptsComputed ==
    [][(Appends /\ (current.total_price = None \/ DecIsZero(current.total_price))) =>
        /\ Appended.total_price = Appended.computed_total
        /\ Appended.total_matches = TRUE
        /\ \A i \in 1..Len(NewWarnings) : NewWarnings[i].kind # "total mismatch"
      ]_vars

\* a position none of whose rows declares a total, priced at a non-zero computed total
C4_Witness ==
    \E k \in 1..Len(positions) :
        /\ \A r \in PositionRows(positions[k]) : RowTotalPrice(Row(raw_df, r), colmap) = None
        /\ ~DecIsZero(positions[k].computed_total)
        /\ positions[k].total_price = positions[k].computed_total
        /\ positions[k].total_matches

\* the next step finalizes current: a new-position row, or the end of the sheet
Finalizing ==
    /\ pc = "parse_positions"
    /\ current # None
    /\ \/ rel_idx >= Len(raw_df)
       \/ /\ ~is_total_row(Row(raw_df, rel_idx))
          /\ clean_text(Cell(Row(raw_df, rel_idx), colmap["position_id"])) # <<>>

\* C5: when the declared total of a finalized position is non-zero and differs from
\* computed_total by more than 0.01, the position is still appended, with total_matches
\* false, total_price the declared value and computed_total set, exactly one
\* total-mismatch warning is appended, and the row loop goes on with the next row.
C5_MismatchIsWarningOnly ==
    [][(/\ Finalizing
        /\ current.total_price # None
        /\ ~DecIsZero(current.total_price)
        /\ ~Within001(current.total_price,
                      DecMul(OrZero(current.quantity), OrZero(current.unit_price)))) =>
        /\ Len(positions') = Len(positions) + 1
        /\ SubSeq(positions', 1, Len(positions)) = positions
        /\ Appended.position_id = current.position_id
        /\ Appended.total_matches = FALSE
        /\ Appended.total_price = current.total_price
        /\ Appended.computed_total =
              DecMul(OrZero(current.quantity), OrZero(current.unit_price))
        /\ CountWarnings(NewWarnings, "total mismatch", current.position_id) = 1
        /\ SubSeq(warnings', 1, Len(warnings)) = warnings
        /\ (rel_idx < Len(raw_df) =>
              pc' = "parse_positions" /\ rel_idx' = rel_idx + 1 /\ current' # None)
      ]_vars

\* a mismatching position has been appended and the next position is being assembled
C5_Witness ==
    /\ pc = "parse_positions"
    /\ current # None
    /\ \E k \in 1..Len(positions) :
          /\ ~positions[k].total_matches
          /\ ~Within001(positions[k].total_price, positions[k].computed_total)
          /\ CountWarnings(warnings, "total mismatch", positions[k].position_id) >= 1

\* C6: at every finalization a 'missing quantity' warning is recorded exactly when the
\* quantity is null (not when it is zero), a 'missing unit price' warning exactly when
\* the unit price is null, a 'missing unit of measure' warning exactly when the unit is
\* empty, whatever the outcome of the total comparison.
C6_MissingFieldWarnings ==
    [][Appends =>
        LET id == current.position_id
        IN  /\ CountWarnings(NewWarnings, "missing quantity", id) =
                  (IF current.quantity = None THEN 1 ELSE 0)
            /\ CountWarnings(NewWarnings, "missing unit price", id) =
                  (IF current.unit_price = None THEN 1 ELSE 0)
            /\ CountWarnings(NewWarnings, "missing unit of measure", id) =
                  (IF current.unit = <<>> THEN 1 ELSE 0)
      ]_vars

\* a mismatching position whose quantity is zero, not null: no 'missing quantity' for it
C6_Witness ==
    \E k \in 1..Len(positions) :
        /\ ~positions[k].total_matches
        /\ positions[k].quantity # None
        /\ DecIsZero(positions[k].quantity)
        /\ CountWarnings(warnings, "total mismatch", positions[k].position_id) >= 1
        /\ CountWarnings(warnings, "missing quantity", positions[k].position_id) = 0

\* the rows of the input sheets with a cell that, normalized, contains 'ukupno',
\* 'total', 'sum' or 'zbir'
TotalMarkerRows ==
    {row \in DataRowSet \cup UNION {{h[i] : i \in 1..Len(h)} : h \in HeaderBlocks} :
        \E i \in 1..Len(row) :
            \E marker \in { <<"u", "k", "u", "p", "n", "o">>, <<"t", "o", "t", "a", "l">>,
                            <<"s", "u", "m">>, <<"z", "b", "i", "r">> } :
                Contains(normalize_header_value(row[i]), marker)}

TotalMarkerRow(row) == row \in TotalMarkerRows

\* the cleaned position_id cell of the row with index r
IdCell(r) == clean_text(Cell(Row(raw_df, r), colmap["position_id"]))

\* positions and warnings belong to raw_df: the sheet is being parsed or has been
ParseState == pc = "parse_positions" \/ SheetParsed

\* the positions appended so far and the one being assembled
AllPositions ==
    {positions[k] : k \in 1..Len(positions)} \cup (IF current # None THEN {current} ELSE {})

\* C7: a data row with a total marker in any cell is skipped entirely: it starts no
\* position even with a position code, leaves the current position, the pending
\* description, the appended positions and the warnings as they are, and its index is in
\* no source_row_indices.
C7_TotalRowsSkipped ==
    /\ [][(/\ pc = "parse_positions"
           /\ rel_idx < Len(raw_df)
           /\ TotalMarkerRow(Row(raw_df, rel_idx))) =>
            /\ current' = current
            /\ description_parts' = description_parts
            /\ positions' = positions
            /\ warnings' = warnings
            /\ pc' = "parse_positions"
            /\ rel_idx' = rel_idx + 1
         ]_vars
    /\ [](ParseState =>
            \A p \in AllPositions :
                \A r \in PositionRows(p) : ~TotalMarkerRow(Row(raw_df, r)))

\* a total row bearing a position code has been passed while a position was open
C7_Witness ==
    /\ pc = "parse_positions"
    /\ current # None
    /\ \E r \in (header_idx + 1)..(rel_idx - 1) :
          /\ r > current.source_row_indices[1]
          /\ TotalMarkerRow(Row(raw_df, r))
          /\ IdCell(r) # <<>>
          /\ parse_decimal(Cell(Row(raw_df, r), colmap["quantity"])) # None

NumericFields == {"quantity", "unit_price", "total_price"}

\* the number parsed from the cell of field f in the row with index r
Parsed(f, r) == parse_decimal(Cell(Row(raw_df, r), colmap[f]))

\* p[f] is the first non-zero number among the cells of f in the rows of p, in row
\* order; zero if there are only zeros, null if there is no number
IsFirstNonZero(p, f) ==
    LET numbers == {r \in PositionRows(p) : Parsed(f, r) # None}
        nonzero == {r \in numbers : ~DecIsZero(Parsed(f, r))}
    IN  IF nonzero # {} THEN p[f] = Parsed(f, Min(nonzero))
        ELSE IF numbers # {} THEN p[f] # None /\ DecIsZero(p[f])
        ELSE p[f] = None

\* this step merges a continuation row into the position being assembled
ContinuationStep ==
    /\ pc = "parse_positions"
    /\ pc' = "parse_positions"
    /\ current # None
    /\ current' # None
    /\ current'.source_row_indices[1] = current.source_row_indices[1]
    /\ current'.source_row_indices # current.source_row_indices

\* C8: fill-once merging. A numeric field that holds a non-zero value, or a unit that is
\* non-empty, is not changed by a later continuation row of the position; so before the
\* integrity check each numeric field is the first non-zero number of the position's
\* rows (zero or null if there is none), and a continuation row with description text
\* only leaves unit, quantity, unit_price and total_price as they are.
C8_FillOnce ==
    /\ [][ContinuationStep =>
            /\ \A f \in NumericFields :
                  (current[f] # None /\ ~DecIsZero(current[f])) => current'[f] = current[f]
            /\ current.unit # <<>> => current'.unit = current.unit
            /\ (\A f \in NumericFields \cup {"unit"} :
                    Cell(Row(raw_df, rel_idx), colmap[f]) = NaN) =>
                  /\ \A f \in NumericFields \cup {"unit"} : current'[f] = current[f]
         ]_vars
    /\ [](pc = "parse_positions" /\ current # None =>
            \A f \in NumericFields : IsFirstNonZero(current, f))
    /\ [](ParseState =>
            \A k \in 1..Len(positions) :
                \A f \in {"quantity", "unit_price"} : IsFirstNonZero(positions[k], f))

\* a later row of the position states another non-zero unit price, and a zero total of
\* an earlier row has given way to a later non-zero one
C8_Witness ==
    /\ pc = "parse_positions"
    /\ current # None
    /\ \E r \in PositionRows(current) :
          /\ r > current.source_row_indices[1]
          /\ Parsed("unit_price", r) # None
          /\ ~DecIsZero(Parsed("unit_price", r))
          /\ ~DecEq(Parsed("unit_price", r), current.unit_price)
    /\ \E r1, r2 \in PositionRows(current) :
          /\ r1 < r2
          /\ Parsed("total_price", r1) # None
          /\ DecIsZero(Parsed("total_price", r1))
          /\ current.total_price = Parsed("total_price", r2)
          /\ ~DecIsZero(current.total_price)

\* the row with index r bears a position code and no total marker
IsIdRow(r) == ~TotalMarkerRow(Row(raw_df, r)) /\ IdCell(r) # <<>>

\* the rows below the header and above the first position row
LeadingRows ==
    LET ids == {r \in DataRows(raw_df, header_idx) : IsIdRow(r)}
        first == IF ids = {} THEN Len(raw_df) ELSE Min(ids)
    IN  {r \in DataRows(raw_df, header_idx) : r < first}

\* C9: a non-total row with an empty position cell met before the first position row
\* has no effect: the assembler stays without a current position, nothing is appended
\* or warned of, and the row is in no source_row_indices.
C9_LeadingContinuationIgnored ==
    /\ [][(/\ pc = "parse_positions"
           /\ rel_idx < Len(raw_df)
           /\ current = None
           /\ ~TotalMarkerRow(Row(raw_df, rel_idx))
           /\ IdCell(rel_idx) = <<>>) =>
            /\ current' = None
            /\ description_parts' = description_parts
            /\ positions' = positions
            /\ warnings' = warnings
            /\ pc' = "parse_positions"
         ]_vars
    /\ [](ParseState =>
            LET leading == LeadingRows
            IN  \A p \in AllPositions : PositionRows(p) \cap leading = {})
    /\ [](pc = "parse_positions" /\ current = None =>
            positions = <<>> /\ warnings = <<>> /\ description_parts = <<>>)

\* a position has been started below a leading continuation row that carries text
C9_Witness ==
    /\ pc = "parse_positions"
    /\ current # None
    /\ \E r \in LeadingRows :
          /\ r < current.source_row_indices[1]
          /\ ~TotalMarkerRow(Row(raw_df, r))
          /\ DescFragment(Row(raw_df, r), colmap) # <<>>
          /\ Parsed("total_price", r) # None

\* the position codes of the position rows among the rows lo..hi, in row order
RECURSIVE IdsFrom(_, _)
IdsFrom(lo, hi) ==
    IF lo > hi THEN <<>>
    ELSE (IF IsIdRow(lo) THEN <<[id |-> IdCell(lo), row |-> lo]>> ELSE <<>>)
         \o IdsFrom(lo + 1, hi)

\* the position codes and first rows of the positions, in order
Started(poss) ==
    [k \in 1..Len(poss) |->
        [id |-> poss[k].position_id, row |-> poss[k].source_row_indices[1]]]

\* C10: one position per non-total row below the header with a non-empty position cell,
\* in row order, each with that row's cleaned cell as its non-empty position_id; a
\* position is appended exactly once, when the next position row is reached or at the
\* end of the sheet, so that the last one is not lost.
C10_OnePositionPerIdRow ==
    /\ \A p \in AllPositions : ParseState => p.position_id # <<>>
    /\ pc = "parse_positions" =>
          Started(positions \o (IF current # None THEN <<current>> ELSE <<>>))
              = IdsFrom(header_idx + 1, rel_idx - 1)
    /\ SheetParsed => Started(positions) = IdsFrom(header_idx + 1, Len(raw_df) - 1)

\* a parsed sheet of two positions, the second one closed by the end of the sheet after
\* a continuation row
C10_Witness ==
    /\ SheetParsed
    /\ Len(positions) = 2
    /\ Len(positions[2].source_row_indices) >= 3
    /\ positions[2].source_row_indices[Len(positions[2].source_row_indices)] = Len(raw_df) - 1

-----------------------------------------------------------------------------
\* The module-level functions called on their own: pc names the function, arg is its
\* argument, ret is None before the call and [value |-> ...] after it.

\* the characters of the text cells
TextChars == {"1", "0", ".", ",", "-", " ", "a"}

\* the most characters of a text cell
MaxTextLen == 3

Texts == SeqsUpTo(TextChars, MaxTextLen)

\* '1.234,56', a quantity with a unit after a no-break space, a negative number
\* among letters, two numbers, two commas
LongTexts ==
    { <<"1", ".", "2", "3", "4", ",", "5", "6">>,
      <<" ", "1", "2", ",", "5", "U+00A0", "m", "2">>,
      <<"c", "c", "a", " ", "-", "3", ",", "5", "0", " ", "d", "i", "n">>,
      <<"2", " ", "x", " ", "7", ",", "5">>,
      <<"1", ",", "2", ",", "3">>,
      <<"1", ".", "0", "0", "0", ".", "0", "0", "0">> }

DecimalArgs ==
    {None, NaN, IntCell(0), IntCell(12), IntCell(-3), FloatCell(25, 1), FloatCell(0, 1),
     BoolCell(TRUE), BoolCell(FALSE)}
    \cup {StrCell(t) : t \in Texts \cup LongTexts}

\* rows for the top of a sheet: blank cells that are text, not NaN
HeaderSparse ==
    <<TxPoz, TxOpis, StrCell(<<" ">>), StrCell(<<>>), StrCell(<<" ">>), StrCell(<<>>)>>
\* three unit tokens and nothing else
RowUnits ==
    <<NaN, StrCell(<<"m", "2">>), StrCell(<<"k", "g">>), StrCell(<<"t">>), NaN, NaN>>

HeaderRowSet ==
    {HeaderFull, HeaderPozOpis, HeaderUnitQtyTotal, HeaderSparse, TitleRow, RowUnits, RowBeton}

\* the most rows of a sheet given to find_header_row
MaxHeaderRows == 3

HeaderArgs == SeqsUpTo(HeaderRowSet, MaxHeaderRows)

\* header cells: names of fields, second spellings of two of them, a blank cell and
\* a cell that names no field
TxRbr == StrCell(<<"R", ".", "b", "r">>)
TxUkupno == StrCell(<<" ", "U", "K", "U", "P", "N", "O">>)

HeaderCellSet == {TxPoz, TxRbr, TxOpis, TxJM, TxIznos, TxUkupno, TxTitle, NaN}

\* the most cells of a header row given to match_columns_by_name
MaxHeaderCells == 3

HeaderLists == SeqsUpTo(HeaderCellSet, MaxHeaderCells)

\* Sheets four columns wide for infer_columns_structurally: header rows that name two
\* or three fields in different columns, a line above the header with a unit in
\* column 0, and data rows with unit tokens in different columns.
NarrowHeaders ==
    { <<TxPoz, TxOpis, NaN, NaN>>,
      <<TxPoz, NaN, NaN, TxOpis>>,
      <<TxOpis, NaN, TxIznos, NaN>>,
      <<TxKol, TxJM, NaN, NaN>>,
      <<TxJM, NaN, NaN, TxKol>>,
      <<TxPoz, TxJM, TxKol, NaN>>,
      <<TxPoz, TxOpis, TxJedCena, NaN>> }

NarrowLead == <<StrCell(<<"k", "g">>), StrCell(<<"x">>), NaN, NaN>>

NarrowRows ==
    { <<StrCell(<<"m", "2">>), StrCell(<<"1">>), StrCell(<<"x">>), StrCell(<<"k", "g">>)>>,
      <<StrCell(<<"1">>), StrCell(<<"k", "g">>), StrCell(<<"m", "2">>), IntCell(5)>>,
      <<NaN, StrCell(<<"t">>), StrCell(<<"M", "U+00B2">>), StrCell(<<"k", "o", "m">>)>>,
      <<StrCell(<<"1", ".", "1">>), StrCell(<<"a">>), StrCell(<<"b">>), NaN>>,
      <<StrCell(<<"k", "g">>), StrCell(<<" ", "K", "g", " ">>), IntCell(2), StrCell(<<"m">>)>> }

\* the most data rows of a sheet given to infer_columns_structurally
MaxNarrowRows == 2

NarrowSheets ==
    {lead \o <<h>> \o d : lead \in {<<>>, <<NarrowLead>>}, h \in NarrowHeaders,
                          d \in SeqsUpTo(NarrowRows, MaxNarrowRows)}

\* the arguments parse_workbook passes: the sheet, its header row and the mapping
\* matched by name on that row
InferArgs ==
    {[df |-> d, header_idx |-> find_header_row(d),
      mapping |-> match_columns_by_name(Row(d, find_header_row(d)))] : d \in NarrowSheets}

InitFn ==
    /\ \/ pc = "parse_decimal" /\ arg \in DecimalArgs
       \/ pc = "infer_columns_structurally" /\ arg \in InferArgs
       \/ pc = "find_header_row" /\ arg \in HeaderArgs
       \/ pc = "match_columns_by_name" /\ arg \in HeaderLists
    /\ ret = None
    /\ workbook = <<>>
    /\ sheet_no = 0
    /\ raw_df = <<>>
    /\ discipline = <<>>
    /\ header_idx = NoHeader
    /\ mapping = EmptyMapping
    /\ colmap = EmptyMapping
    /\ rel_idx = 0
    /\ current = None
    /\ description_parts = <<>>
    /\ positions = <<>>
    /\ warnings = <<>>
    /\ results = <<>>
    /\ excel = "closed"
    /\ previous = <<>>
    /\ payload = <<>>

CallParseDecimal ==
    /\ pc = "parse_decimal"
    /\ ret = None
    /\ ret' = [value |-> parse_decimal(arg)]
    /\ UNCHANGED <<call_vars, caller_vars, arg>>

CallFindHeaderRow ==
    /\ pc = "find_header_row"
    /\ ret = None
    /\ ret' = [value |-> find_header_row(arg)]
    /\ UNCHANGED <<call_vars, caller_vars, arg>>

CallMatchColumnsByName ==
    /\ pc = "match_columns_by_name"
    /\ ret = None
    /\ ret' = [value |-> match_columns_by_name(arg)]
    /\ UNCHANGED <<call_vars, caller_vars, arg>>

CallInferColumnsStructurally ==
    /\ pc = "infer_columns_structurally"
    /\ ret = None
    /\ ret' = [value |-> infer_columns_structurally(arg.df, arg.header_idx, arg.mapping)]
    /\ UNCHANGED <<call_vars, caller_vars, arg>>

NextFn == CallParseDecimal \/ CallFindHeaderRow \/ CallMatchColumnsByName
          \/ CallInferColumnsStructurally

SpecFn == InitFn /\ [][NextFn]_vars

-----------------------------------------------------------------------------
\* Properties of whole workbooks (SpecWorkbook)

\* the cells of a row as find_header_row sees them
Normalized(row) == [i \in 1..Len(row) |-> normalize_header_value(row[i])]

\* the row is scored by find_header_row: it has at least 3 non-empty cells
Eligible(row) == Cardinality({i \in 1..Len(row) : Normalized(row)[i] # <<>>}) >= 3

\* some row that find_header_row scores has a score above 0
HasScoringRow(df) == \E i \in 1..Len(df) : Eligible(df[i]) /\ RowScore(Normalized(df[i])) > 0

\* C11: a sheet in which no scored row scores above 0 gets a result with no positions
\* and the single warning 'Header row could not be detected', the parse goes on to
\* the later sheets (it never raises at such a sheet, and a returning call has one
\* result per sheet); and find_header_row returns "not found" exactly when no scored
\* row scores above 0.
C11_NoHeaderResult ==
    /\ pc # "find_header" => (header_idx = NoHeader <=> ~HasScoringRow(raw_df))
    /\ \A k \in 1..Len(results) :
          ~HasScoringRow(workbook[k].rows) =>
              /\ results[k].positions = <<>>
              /\ results[k].warnings = <<HeaderNotDetectedWarning>>
    /\ \A k \in 1..Len(results) :
          results[k].warnings = <<HeaderNotDetectedWarning>> => ~HasScoringRow(workbook[k].rows)
    /\ pc = "returned" => Len(results) = Len(workbook)
    /\ pc = "raised" =>
          \/ ~workbook[sheet_no].readable
          \/ HasScoringRow(workbook[sheet_no].rows)

\* a returned call on two sheets: the first has a title line and a text row but no
\* scoring row, the second has yielded a position
C11_Witness ==
    /\ pc = "returned"
    /\ Len(workbook) = 2
    /\ workbook[1].rows # <<>>
    /\ ~HasScoringRow(workbook[1].rows)
    /\ results[1].warnings = <<HeaderNotDetectedWarning>>
    /\ results[2].positions # <<>>

\* the row loop of parse_positions on a sheet taken by itself, from row idx on
RECURSIVE LoopAlone(_, _, _, _, _, _, _, _)
LoopAlone(df, cm, disc, idx, cur, parts, poss, warns) ==
    IF idx >= Len(df) THEN CloseAtEnd(cur, parts, disc, poss, warns)
    ELSE LET row == Row(df, idx)
             raw_id == RawId(row, cm)
             is_new_item == raw_id # <<>>
             closed == IF is_new_item THEN CloseOnNewItem(cur, parts, disc, poss, warns)
                       ELSE [positions |-> poss, warnings |-> warns]
             started == StartPosition(cur, is_new_item, disc, raw_id, idx)
             kept == IF is_new_item THEN <<>> ELSE parts
         IN  IF is_total_row(row)
             THEN LoopAlone(df, cm, disc, idx + 1, cur, parts, poss, warns)
             ELSE IF started = None
             THEN LoopAlone(df, cm, disc, idx + 1, started, kept, closed.positions,
                            closed.warnings)
             ELSE LoopAlone(df, cm, disc, idx + 1, MergeRow(started, row, cm, idx),
                            IF DescFragment(row, cm) # <<>>
                            THEN Append(kept, DescFragment(row, cm)) ELSE kept,
                            closed.positions, closed.warnings)

\* the result of a sheet parsed by itself, from nothing but the sheet
ParseAlone(sheet) ==
    LET df == sheet.rows
        disc == Strip(sheet.name)
        hdr == find_header_row(df)
    IN  IF hdr = NoHeader
        THEN DisciplineResult(disc, sheet.name, <<>>, <<HeaderNotDetectedWarning>>)
        ELSE LET cm == infer_columns_structurally(df, hdr,
                                                  match_columns_by_name(Row(df, hdr)))
                 closed == LoopAlone(df, cm, disc, hdr + 1, None, <<>>, <<>>, <<>>)
             IN  DisciplineResult(disc, sheet.name, closed.positions, closed.warnings)

\* C12: parse_workbook returns one result per sheet, in sheet order, and the k-th
\* result is what the k-th sheet yields when parsed by itself: nothing of an earlier
\* sheet's parse shows in it.
C12_OneResultPerSheetInOrder ==
    /\ Len(results) <= Len(workbook)
    /\ pc = "returned" => Len(results) = Len(workbook)
    /\ \A k \in 1..Len(results) : results[k] = ParseAlone(workbook[k])

\* a returned call on two sheets with positions: the first sheet has left warnings,
\* the second has none
C12_Witness ==
    /\ pc = "returned"
    /\ Len(workbook) = 2
    /\ results[1].positions # <<>>
    /\ results[1].warnings # <<>>
    /\ results[2].positions # <<>>
    /\ results[2].warnings = <<>>

\* the sheet by itself cannot be parsed: reading it raises, or a row below its header
\* that is not a total row has a cell on which parse_decimal raises
Unparsable(sheet) ==
    \/ ~sheet.readable
    \/ LET df == sheet.rows
           hdr == find_header_row(df)
       IN  /\ hdr # NoHeader
           /\ \E idx \in (hdr + 1)..(Len(df) - 1) :
                 /\ ~is_total_row(Row(df, idx))
                 /\ RowRaises(Row(df, idx),
                              infer_columns_structurally(df, hdr,
                                  match_columns_by_name(Row(df, hdr))))

\* C13: once the workbook is open, no call of parse_workbook ends with an exception
\* because of one sheet: a call always returns, with one result per sheet, and the
\* result of a sheet that cannot be parsed is empty.
C13_NeverRaisesForOneSheet ==
    /\ pc # "raised"
    /\ pc = "returned" =>
          /\ Len(results) = Len(workbook)
          /\ \A k \in 1..Len(results) :
                Unparsable(workbook[k]) => results[k].positions = <<>>

\* C14: no call of parse_workbook ends, by return or by exception, with the workbook
\* file handle still open.
C14_HandleClosedOnEveryExit ==
    pc \in {"returned", "raised"} => excel = "closed"

\* C15: a call of parse_workbook on a workbook that has been parsed before ends as
\* the call before did: with the same sequence of results (positions, field values,
\* source_row_indices and warnings, in the same order), or with an exception if that
\* call ended with one.
C15_SameWorkbookSameResults ==
    (pc \in {"returned", "raised"} /\ previous # <<>>) =>
        Outcome = previous[Len(previous)]

\* a second call has returned positions and warnings
C15_Witness ==
    /\ pc = "returned"
    /\ previous # <<>>
    /\ previous[1].status = "returned"
    /\ \E k \in 1..Len(results) :
          /\ results[k].positions # <<>>
          /\ results[k].warnings # <<>>

\* C17: in the result of every sheet, with or without a header row, discipline and
\* sheet_name are both the sheet's name without its surrounding whitespace.
C17_LabelsAreTrimmedName ==
    \A k \in 1..Len(results) :
        /\ results[k].discipline = Strip(workbook[k].name)
        /\ results[k].sheet_name = Strip(workbook[k].name)

\* the number a Decimal field is emitted as, 0 for None
Emitted(d) == IF d = None THEN Float(Dec(0, 0)) ELSE Float(d)

\* C18: the record to_dict makes of a finalized position has the key computed_total
\* if and only if total_matches is false, that is, the declared total is more than
\* 0.01 away from quantity * unit_price; quantity, unit_price and total_price are
\* numbers in every record, 0 for a field that is None.
C18_ToDictComputedTotal ==
    \A k \in 1..(IF payload = <<>> THEN 0 ELSE Len(results)) :
        \A i \in 1..Len(results[k].positions) :
            LET p == results[k].positions[i]
                d == payload[1][k].positions[i]
            IN  /\ ("computed_total" \in DOMAIN d) <=> ~p.total_matches
                /\ ~p.total_matches <=> ~Within001(p.total_price, p.computed_total)
                /\ "computed_total" \in DOMAIN d => d.computed_total = Float(p.computed_total)
                /\ d.quantity = Emitted(p.quantity)
                /\ d.unit_price = Emitted(p.unit_price)
                /\ d.total_price = Emitted(p.total_price)

\* the results of a sheet have been converted: one position has a mismatching total
\* and carries computed_total, another has no quantity and carries quantity 0 and no
\* computed_total
C18_Witness ==
    /\ payload # <<>>
    /\ \E k \in 1..Len(results) :
          \E i, j \in 1..Len(results[k].positions) :
              /\ ~results[k].positions[i].total_matches
              /\ "computed_total" \in DOMAIN payload[1][k].positions[i]
              /\ results[k].positions[j].quantity = None
              /\ payload[1][k].positions[j].quantity = Float(Dec(0, 0))
              /\ "computed_total" \notin DOMAIN payload[1][k].positions[j]

-----------------------------------------------------------------------------
\* Properties of the functions called on their own (SpecFn)

\* the positions where a numeral can start: a digit, or a '-' right before a digit
NumeralStarts(text) ==
    {i \in 1..Len(text) :
        \/ IsDigit(text[i])
        \/ text[i] = "-" /\ i < Len(text) /\ IsDigit(text[i + 1])}

\* the first numeral of a text that has one: from the leftmost start over the
\* digits, dots and commas that follow, as far as they go
FirstNumeral(text) ==
    LET i == Min(NumeralStarts(text))
        j == CHOOSE j \in i..Len(text) :
                /\ \A k \in (i + 1)..j : IsDigit(text[k]) \/ text[k] \in {".", ","}
                /\ j = Len(text) \/ ~(IsDigit(text[j + 1]) \/ text[j + 1] \in {".", ","})
    IN  SubSeq(text, i, j)

\* the natural number a sequence of digits writes, digit by place value
PlaceValue(ds) == SumOver([i \in 1..Len(ds) |-> DigitVal(ds[i]) * Pow10(Len(ds) - i)], Len(ds))

\* The Decimal the convention reads from a numeral: the digits before the comma are
\* the whole part, whatever dots stand between them, the digits after it the
\* fraction. None for a numeral with more than one comma.
ReadNumeral(numeral) ==
    LET commas == {i \in 1..Len(numeral) : numeral[i] = ","}
        cut == IF commas = {} THEN Len(numeral) + 1 ELSE Min(commas)
        whole == SelectSeq(SubSeq(numeral, 1, cut - 1), IsDigit)
        fraction == SelectSeq(SubSeq(numeral, cut + 1, Len(numeral)), IsDigit)
        magnitude == PlaceValue(whole) * Pow10(Len(fraction)) + PlaceValue(fraction)
    IN  IF Cardinality(commas) > 1 THEN None
        ELSE Dec(IF numeral[1] = "-" THEN -magnitude ELSE magnitude, Len(fraction))

\* what the convention yields for a text cell or a missing cell
ReadCell(cell) ==
    IF cell = None \/ cell.t = "nan" THEN None
    ELSE IF NumeralStarts(cell.s) = {} THEN None
    ELSE ReadNumeral(FirstNumeral(cell.s))

\* C16: on a text cell parse_decimal yields the value of the first numeral of the
\* text (optional '-', a digit, then digits, dots and commas) read with every '.'
\* dropped and ',' as the decimal point, and null when the text has no numeral; so
\* '1.234,56' yields 1234.56, '0' yields 0 and not null, and an empty or missing
\* cell yields null.
C16_DecimalCommaConvention ==
    (pc = "parse_decimal" /\ ret # None) =>
        /\ (arg = None \/ arg.t \in {"nan", "str"}) =>
              IF ReadCell(arg) = None THEN ret.value = None
              ELSE /\ ret.value # None
                   /\ ret.value # Raised("InvalidOperation")
                   /\ DecEq(ret.value, ReadCell(arg))
        /\ arg = StrCell(<<"1", ".", "2", "3", "4", ",", "5", "6">>) =>
              ret.value = Dec(123456, 2)
        /\ arg = StrCell(<<"0">>) => ret.value = Dec(0, 0)
        /\ arg \in {None, NaN, StrCell(<<>>), StrCell(<<" ">>)} => ret.value = None

\* parse_decimal has been called on '1.234,56' and has returned 1234.56
C16_Witness ==
    /\ pc = "parse_decimal"
    /\ arg = StrCell(<<"1", ".", "2", "3", "4", ",", "5", "6">>)
    /\ ret = [value |-> Dec(123456, 2)]

\* a cell that is empty or missing in the sheet: no value, the NaN of a blank cell,
\* or text of nothing but whitespace
BlankCell(cell) ==
    \/ cell = None
    \/ cell.t = "nan"
    \/ cell.t = "str" /\ Strip(cell.s) = <<>>

\* C19: the row find_header_row returns has at least 3 cells that are not empty or
\* missing in the sheet, header variants or not.
C19_HeaderRowHasThreeCells ==
    (pc = "find_header_row" /\ ret # None /\ ret.value # NoHeader) =>
        Cardinality({i \in 1..Len(Row(arg, ret.value)) :
                        ~BlankCell(Row(arg, ret.value)[i])}) >= 3

\* the rows find_header_row scores 4 or more, by 0-based index
RowsScoringFour(df) ==
    {idx \in 0..(Len(df) - 1) : Eligible(Row(df, idx)) /\ RowScore(Normalized(Row(df, idx))) >= 4}

\* C20: when some row with at least 3 non-empty cells scores 4 or more (2 per cell
\* that is a known header variant, 1 per cell that is an allowed unit),
\* find_header_row returns the topmost such row, whatever the rows below it score.
C20_EarlyExitAtFour ==
    (pc = "find_header_row" /\ ret # None /\ RowsScoringFour(arg) # {}) =>
        ret.value = Min(RowsScoringFour(arg))

\* find_header_row has returned a row with three header cells that stands above a
\* row of a higher score
C20_Witness ==
    /\ pc = "find_header_row"
    /\ ret # None
    /\ RowsScoringFour(arg) # {}
    /\ ret.value = Min(RowsScoringFour(arg))
    /\ Cardinality({i \in 1..Len(Row(arg, ret.value)) :
                      ~BlankCell(Row(arg, ret.value)[i])}) >= 3
    /\ \E idx \in RowsScoringFour(arg) :
          /\ idx > ret.value
          /\ RowScore(Normalized(Row(arg, idx))) > RowScore(Normalized(Row(arg, ret.value)))

\* the rows find_header_row scores, by 0-based index, and the score of a row
EligibleRows(df) == {idx \in 0..(Len(df) - 1) : Eligible(Row(df, idx))}
ScoreOf(df, idx) == RowScore(Normalized(Row(df, idx)))

\* the topmost of the scored rows with the greatest score
TopmostBest(df) ==
    Min({idx \in EligibleRows(df) :
            \A other \in EligibleRows(df) : ScoreOf(df, other) <= ScoreOf(df, idx)})

\* C21 as stated: when no scored row reaches 4, the row returned is the topmost of
\* the scored rows with the greatest score, whatever that score is.
C21_BestRowAnyScore ==
    (/\ pc = "find_header_row"
     /\ ret # None
     /\ EligibleRows(arg) # {}
     /\ RowsScoringFour(arg) = {}) =>
        ret.value = TopmostBest(arg)

\* C21, amended: when no scored row reaches 4 and some scored row scores above 0,
\* the row returned is the topmost of the scored rows with the greatest score; when
\* no scored row scores above 0, no row is returned.
C21_BestRowAboveZero ==
    (/\ pc = "find_header_row"
     /\ ret # None
     /\ RowsScoringFour(arg) = {}) =>
        IF \E idx \in EligibleRows(arg) : ScoreOf(arg, idx) > 0
        THEN ret.value = TopmostBest(arg)
        ELSE ret.value = NoHeader

\* find_header_row has returned the upper of two rows that both have the greatest
\* score, 3, below a row of a lower score
C21_Witness ==
    /\ pc = "find_header_row"
    /\ ret # None
    /\ RowsScoringFour(arg) = {}
    /\ ret.value = 1
    /\ Len(arg) = 3
    /\ ScoreOf(arg, 0) = 1
    /\ ScoreOf(arg, 1) = 3
    /\ ScoreOf(arg, 2) = 3

\* the 0-based indices of the header cells that name the field
CellsNaming(headers, field) ==
    {idx \in 0..(Len(headers) - 1) :
        normalize_header_value(Cell(headers, idx)) \in COLUMN_VARIANTS[field]}

\* C22: match_columns_by_name maps a field to the lowest index of the header cells
\* whose normalized text is one of the field's variants, whatever cells follow, and
\* has no entry for a field that no header cell names.
C22_FirstHeaderCellWins ==
    (pc = "match_columns_by_name" /\ ret # None) =>
        /\ DOMAIN ret.value = {f \in Fields : CellsNaming(arg, f) # {}}
        /\ \A f \in DOMAIN ret.value : ret.value[f] = Min(CellsNaming(arg, f))

\* two cells name the position ('Poz.' and, after it, 'R.br'): the first is mapped;
\* no cell names the unit
C22_Witness ==
    /\ pc = "match_columns_by_name"
    /\ ret # None
    /\ Cardinality(CellsNaming(arg, "position_id")) = 2
    /\ arg[1] = TxPoz
    /\ ret.value["position_id"] = 0
    /\ "unit" \notin DOMAIN ret.value

\* the header row of the sheet at hand
HeaderCells == Row(raw_df, header_idx)

\* C23: infer_columns_structurally leaves every field of the name-matched mapping at
\* its matched index and infers only the others; with the header 'Poz.', 'Opis',
\* 'JM', 'Kolicina', 'Jed. cena', 'Iznos' (Kolicina with c-caron) the ColumnMapping
\* is columns 0 to 5 in this order, whatever the data rows are.
C23_MatchedFieldsKept ==
    [][pc = "infer_columns" =>
          /\ DOMAIN colmap' = Fields
          /\ \A f \in DOMAIN mapping : colmap'[f] = mapping[f]
          /\ HeaderCells = HeaderFull =>
                colmap' = [position_id |-> 0, description |-> 1, unit |-> 2,
                           quantity |-> 3, unit_price |-> 4, total_price |-> 5]]_vars

\* the columns are inferred for a header that names the quantity in column 2 and the
\* unit in column 5 (inference would put the quantity in column 4), above data rows
C23_Witness ==
    /\ pc = "parse_positions"
    /\ HeaderCells = HeaderUnitLast
    /\ Len(raw_df) > header_idx + 1
    /\ colmap["quantity"] = 2
    /\ colmap["unit"] = 5
    /\ colmap["total_price"] = 5

\* the number of cells of column col, in the rows below row hdr, that normalize to an
\* allowed unit
UnitCellsBelow(df, hdr, col) ==
    Cardinality({r \in 1..Len(df) :
                    /\ r - 1 > hdr
                    /\ normalize_header_value(df[r][col + 1]) \in ALLOWED_UNITS})

\* C24: when no header cell names the unit, the unit column is the lowest of the
\* columns with the most unit cells in the rows strictly below the header row, and
\* column 0 when no cell below the header is a unit.
C24_UnitColumnByCount ==
    (/\ pc = "infer_columns_structurally"
     /\ ret # None
     /\ "unit" \notin DOMAIN arg.mapping) =>
        LET cols == 0..(Len(arg.df[1]) - 1)
            most == Max({UnitCellsBelow(arg.df, arg.header_idx, c) : c \in cols})
        IN  /\ ret.value["unit"] =
                  Min({c \in cols : UnitCellsBelow(arg.df, arg.header_idx, c) = most})
            /\ most = 0 => ret.value["unit"] = 0

\* the unit is inferred on a sheet where columns 1 and 2 both have the most unit
\* cells, two each, and the line above the header has a unit in column 0
C24_Witness ==
    /\ pc = "infer_columns_structurally"
    /\ ret # None
    /\ "unit" \notin DOMAIN arg.mapping
    /\ arg.header_idx = 1
    /\ UnitCellsBelow(arg.df, arg.header_idx, 0) = 0
    /\ UnitCellsBelow(arg.df, arg.header_idx, 1) = 2
    /\ UnitCellsBelow(arg.df, arg.header_idx, 2) = 2
    /\ ret.value["unit"] = 1

\* C25: when no header cell names the unit price, it is quantity + 1 clamped to the
\* last column if quantity + 1 is not the unit column, and the unit column
\* otherwise; either way it is min(quantity + 1, width - 1).
C25_UnitPriceRightOfQuantity ==
    (/\ pc = "infer_columns_structurally"
     /\ ret # None
     /\ "unit_price" \notin DOMAIN arg.mapping) =>
        LET width == Len(arg.df[1])
            quantity == ret.value["quantity"]
            unit == ret.value["unit"]
        IN  /\ ret.value["unit_price"] =
                  IF quantity + 1 # unit THEN Min({quantity + 1, width - 1}) ELSE unit
            /\ ret.value["unit_price"] = Min({quantity + 1, width - 1})
            /\ quantity + 1 = unit => ret.value["unit_price"] = unit

\* the unit price is inferred where the header names the quantity in the last
\* column, so that quantity + 1 is clamped
C25_Witness ==
    /\ pc = "infer_columns_structurally"
    /\ ret # None
    /\ "unit_price" \notin DOMAIN arg.mapping
    /\ "quantity" \in DOMAIN arg.mapping
    /\ ret.value["quantity"] = Len(arg.df[1]) - 1
    /\ ret.value["unit_price"] = ret.value["quantity"]

-----------------------------------------------------------------------------
\* Further properties of the position assembler (Spec)

\* the normalized unit cell of the row with index r
UnitCell(r) == normalize_header_value(Cell(Row(raw_df, r), colmap["unit"]))

\* the unit of p is the first allowed unit among the unit cells of its rows, and
\* empty if none of them is an allowed unit
IsFirstAllowedUnit(p) ==
    LET allowed == {r \in PositionRows(p) : UnitCell(r) \in ALLOWED_UNITS}
    IN  IF allowed = {} THEN p.unit = <<>> ELSE p.unit = UnitCell(Min(allowed))

\* C26: the unit of the position being assembled and of every emitted position is
\* empty or in the allowed-unit vocabulary; a unit cell outside the vocabulary is
\* never stored, and the first cell of the position's rows that is in the vocabulary
\* is taken, whatever stands in the unit cells of the rows before it (stated of the
\* position being assembled and of the position appended last).
C26_UnitEmptyOrAllowed ==
    /\ ParseState =>
          /\ \A p \in AllPositions : p.unit = <<>> \/ p.unit \in ALLOWED_UNITS
          /\ current # None => IsFirstAllowedUnit(current)
          /\ positions # <<>> => IsFirstAllowedUnit(positions[Len(positions)])
    /\ \A k \in 1..Len(results) :
          \A i \in 1..Len(results[k].positions) :
              results[k].positions[i].unit = <<>>
              \/ results[k].positions[i].unit \in ALLOWED_UNITS

\* the position being assembled has the unit of a later row, after a row whose unit
\* cell holds a text outside the vocabulary
C26_Witness ==
    /\ pc = "parse_positions"
    /\ current # None
    /\ current.unit \in ALLOWED_UNITS
    /\ \E r1, r2 \in PositionRows(current) :
          /\ r1 < r2
          /\ Cell(Row(raw_df, r1), colmap["unit"]) # NaN
          /\ UnitCell(r1) # <<>>
          /\ UnitCell(r1) \notin ALLOWED_UNITS
          /\ UnitCell(r2) = current.unit

\* C27: for every emitted position, source_row_indices is non-empty, begins with the
\* index of the row that bore its position_id, is strictly increasing, contains only
\* indices greater than the header row index, and is disjoint from the
\* source_row_indices of every other position of the sheet.
C27_SourceRowIndicesOrdered ==
    ParseState =>
        \A k \in 1..Len(positions) :
            LET sri == positions[k].source_row_indices
            IN  /\ sri # <<>>
                /\ IsIdRow(sri[1])
                /\ IdCell(sri[1]) = positions[k].position_id
                /\ \A i \in 1..(Len(sri) - 1) : sri[i] < sri[i + 1]
                /\ \A i \in 1..Len(sri) : sri[i] > header_idx
                /\ \A j \in 1..Len(positions) :
                       j # k => PositionRows(positions[j]) \cap PositionRows(positions[k]) = {}

\* a text cell that holds no number: no digit at all, or a digit run with more than one
\* ',' (more than one decimal point after the separators are rewritten)
Uninterpretable(cell) ==
    /\ cell # None
    /\ cell.t = "str"
    /\ LET text == Strip(Str(cell))
           match == NumericMatch(text)
       IN  /\ text # <<>>
           /\ \/ \A i \in 1..Len(text) : ~IsDigit(text[i])
              \/ Cardinality({i \in 1..Len(match) : match[i] = ","}) > 1

\* the row with index r holds an uninterpretable cell in the column of field f
BadCell(f, r) == Uninterpretable(Cell(Row(raw_df, r), colmap[f]))

\* the loop is at a row that is not a total row
AtDataRow ==
    /\ pc = "parse_positions"
    /\ rel_idx < Len(raw_df)
    /\ ~is_total_row(Row(raw_df, rel_idx))

\* the position the row at rel_idx is merged into, before the merge
MergeBase ==
    IF IsIdRow(rel_idx)
    THEN NewPosition(discipline, IdCell(rel_idx), rel_idx)
    ELSE current

\* the kind of the warning for a field that is null at finalization
MissingFieldKind(f) ==
    CASE f = "quantity" -> "missing quantity"
      [] f = "unit_price" -> "missing unit price"
      [] f = "total_price" -> "missing total price"

\* the position finalized in this step had an uninterpretable cell of field f in one
\* of its rows, and the field is still null
StaysNull(f) ==
    /\ Appends
    /\ current[f] = None
    /\ \E r \in PositionRows(current) : BadCell(f, r)

\* an uninterpretable cell yields null, and no call of parse_decimal on the row raises
BadCellYieldsNull ==
    AtDataRow =>
        /\ \A f \in NumericFields : BadCell(f, rel_idx) => Parsed(f, rel_idx) = None
        /\ (\E f \in NumericFields : BadCell(f, rel_idx)) =>
               ~RowRaises(Row(raw_df, rel_idx), colmap)

\* the row with an uninterpretable cell is consumed like any other: the loop goes on
\* to the next row, the field keeps its value, and the unit, the other numeric fields,
\* the description fragment and the row index are merged
BadCellRowMerged ==
    (AtDataRow /\ \E f \in NumericFields : BadCell(f, rel_idx)) =>
        /\ pc' = "parse_positions"
        /\ rel_idx' = rel_idx + 1
        /\ current' # None =>
              LET base == MergeBase
                  r == rel_idx
              IN  /\ r \in PositionRows(current')
                  /\ \A f \in NumericFields :
                         IF Parsed(f, r) # None /\ (base[f] = None \/ DecIsZero(base[f]))
                         THEN current'[f] = Parsed(f, r)
                         ELSE current'[f] = base[f]
                  /\ current'.unit =
                         IF UnitCell(r) \in ALLOWED_UNITS /\ base.unit = <<>>
                         THEN UnitCell(r) ELSE base.unit
                  /\ description_parts' =
                         LET parts == IF IsIdRow(r) THEN <<>> ELSE description_parts
                             fragment == DescFragment(Row(raw_df, r), colmap)
                         IN  IF fragment # <<>> THEN Append(parts, fragment) ELSE parts

\* C28 as stated: an uninterpretable quantity, unit price or total cell yields null and
\* does not abort the row or the sheet, the row's other fields are merged, and each of
\* the three fields that is still null at finalization gets its missing-field warning.
C28_NullFieldAlwaysWarned ==
    /\ []BadCellYieldsNull
    /\ [][BadCellRowMerged]_vars
    /\ [][\A f \in NumericFields :
             StaysNull(f) =>
                 CountWarnings(NewWarnings, MissingFieldKind(f), current.position_id) = 1]_vars

\* C28, amended: an uninterpretable quantity, unit price or total cell yields null and
\* does not abort the row or the sheet, and the row's other fields are merged; a
\* quantity or unit price still null at finalization gets its missing-field warning,
\* while a total still null gets no warning: the position takes computed_total as its
\* total_price with total_matches true.
C28_UninterpretableCellYieldsNull ==
    /\ []BadCellYieldsNull
    /\ [][BadCellRowMerged]_vars
    /\ [][\A f \in {"quantity", "unit_price"} :
             StaysNull(f) =>
                 CountWarnings(NewWarnings, MissingFieldKind(f), current.position_id) = 1]_vars
    /\ [][StaysNull("total_price") =>
             /\ Appended.total_price = Appended.computed_total
             /\ Appended.total_matches = TRUE
             /\ \A i \in 1..Len(NewWarnings) :
                    NewWarnings[i].kind \notin {"missing total price", "total mismatch",
                                                "total comparison failed"}]_vars

\* the sheet has been parsed: a row of an appended position held an uninterpretable
\* total and a quantity, which the position has taken; no row of the position held a
\* total, and the position has computed_total as its total_price, total_matches true
\* and no warning about its total
C28_Witness ==
    /\ SheetParsed
    /\ \E k \in 1..Len(positions) :
          LET q == positions[k]
          IN  /\ \E r \in PositionRows(q) :
                     /\ BadCell("total_price", r)
                     /\ Parsed("quantity", r) # None
                     /\ q.quantity = Parsed("quantity", r)
              /\ \A r \in PositionRows(q) : Parsed("total_price", r) = None
              /\ q.total_price = q.computed_total
              /\ q.total_matches = TRUE
              /\ \A i \in 1..Len(warnings) :
                     warnings[i].kind \notin {"missing total price", "total mismatch",
                                              "total comparison failed"}

\* the kinds of warning a finalization can add
FinalizationKinds ==
    {"missing description", "total mismatch", "total comparison failed",
     "missing quantity", "missing unit price", "missing unit of measure"}

\* the positions appended before this step are the same after it, and at most one
\* position is appended
AppendedKept ==
    /\ Len(positions') \in {Len(positions), Len(positions) + 1}
    /\ SubSeq(positions', 1, Len(positions)) = positions

\* C29: a position appended to the sheet's list is never changed by a later row, be it
\* a continuation, a new-position or a total row: the list only grows at its end, one
\* position at a time, and is the list the sheet's result holds. The integrity check
\* runs on a position once, when it is finalized: the position being assembled has no
\* computed_total, every appended position has one, and a finalization adds at most one
\* warning of each kind, all for the finalized position.
C29_AppendedPositionsFrozen ==
    /\ [][pc = "parse_positions" => AppendedKept]_vars
    /\ [][SheetParsed /\ pc' # "find_header" => positions' = positions]_vars
    /\ [](SheetParsed => results[Len(results)].positions = positions)
    /\ [](pc = "parse_positions" =>
            /\ current # None => current.computed_total = None
            /\ \A k \in 1..Len(positions) : positions[k].computed_total # None)
    /\ [][Appends =>
            /\ Len(NewWarnings) <= Cardinality(FinalizationKinds)
            /\ \A i \in 1..Len(NewWarnings) :
                   /\ NewWarnings[i].kind \in FinalizationKinds
                   /\ NewWarnings[i].position_id = current.position_id
                   /\ CountWarnings(NewWarnings, NewWarnings[i].kind, current.position_id) = 1]_vars

\* the sheet has been parsed with two positions appended; the second took a
\* continuation row after the first was appended, and the first had warnings
C29_Witness ==
    /\ SheetParsed
    /\ Len(positions) = 2
    /\ Len(positions[2].source_row_indices) >= 3
    /\ \E i \in 1..Len(warnings) : warnings[i].position_id = positions[1].position_id
    /\ positions[1].position_id # positions[2].position_id

\* the appended positions with the given position_id whose total does not match
Mismatched(id) ==
    {k \in 1..Len(positions) :
        positions[k].position_id = id /\ ~positions[k].total_matches}

\* C30: every position parse_positions appends and returns has a total_price and a
\* computed_total, and its total_matches is true exactly when the two differ by at most
\* 0.01; the positions with total_matches false are the ones with a total-mismatch
\* warning in the sheet's warning list: each such warning carries the position_id,
\* total_price and computed_total of a position that does not match, and a position_id
\* has as many such warnings as positions that do not match.
C30_TotalMatchesIffWithinTolerance ==
    ParseState =>
        /\ \A k \in 1..Len(positions) :
               LET p == positions[k]
               IN  /\ p.total_price # None
                   /\ p.computed_total # None
                   /\ p.total_matches <=> Within001(p.total_price, p.computed_total)
                   /\ Cardinality(Mismatched(p.position_id))
                          = CountWarnings(warnings, "total mismatch", p.position_id)
        /\ \A i \in 1..Len(warnings) :
               warnings[i].kind = "total mismatch" =>
                   \E k \in Mismatched(warnings[i].position_id) :
                       /\ warnings[i].source = positions[k].total_price
                       /\ warnings[i].computed = positions[k].computed_total
        /\ SheetParsed => results[Len(results)].warnings = warnings

\* the sheet has been parsed into a position whose declared total differs from
\* computed_total by no more than 0.01 and is not equal to it, without a warning, and a
\* position whose total does not match, with its warning
C30_Witness ==
    /\ SheetParsed
    /\ \E k \in 1..Len(positions) :
          /\ positions[k].total_matches
          /\ positions[k].total_price # positions[k].computed_total
          /\ CountWarnings(warnings, "total mismatch", positions[k].position_id) = 0
    /\ \E k \in 1..Len(positions) :
          /\ ~positions[k].total_matches
          /\ CountWarnings(warnings, "total mismatch", positions[k].position_id) = 1

====
